---- MODULE Spec2Model ----
(***************************************************************************)
(* Model of the parametric CAD geometry kernel: solid construction         *)
(* (SolidEngine.extrude over the B-Rep kernel), the feature engine         *)
(* (executeFeature, regenerateFeatures, validateFeatureDependencies) and   *)
(* the constraint solver's conflict pre-check (ConstraintSolver.solve,     *)
(* detectConflicts).                                                       *)
(*                                                                         *)
(* Each area has its own specification over the shared variables:          *)
(*   SpecExtrude, SpecRegen, SpecValidate, SpecSolver.                     *)
(***************************************************************************)
EXTENDS Integers, Sequences, FiniteSets, TLC

VARIABLES
  \* ---- solid construction ----
  sketch,          \* the Sketch handed to extrude: its elements in Map order
  distance,        \* the extrude distance
  solid,           \* the Solid returned by extrude (NoSolid before / on throw)
  thrown,          \* message of the Error thrown by the last operation, or NoError
  \* ---- feature engine: regenerateFeatures ----
  features,        \* the Feature[] handed to regenerateFeatures
  pos,             \* number of list entries the for-loop has gone through
  results,         \* Map<featureId, FeatureResult> under construction
  previousSolids,  \* context.previousSolids (shared Map: featureId -> Solid)
  executed,        \* ids in the order executeFeature was called on them
  published,       \* ids under which this run wrote into previousSolids
  lastHandler,     \* how the last handler lookup/call ended (see HandlerEnds)
  propagated,      \* message of an Error that escaped executeFeature, or NoError
  nextId,          \* the last id / object reference generated so far
  \* ---- feature engine: validateFeatureDependencies ----
  vfeatures,       \* the Feature[] handed to validateFeatureDependencies
  vresult,         \* its return value, or NoResult before the call
  \* ---- constraint solver ----
  geometry,        \* the GeometryElement objects of the sketch: id -> element
  angle,           \* how the Lines L1 and X lie to each other (see AngleClasses)
  elements,        \* keys of ConstraintSolver.elements in Map insertion order
  constraints,     \* ConstraintSolver.constraints in Map insertion order
  lastSolve,       \* SolverResult of solve() if it was the latest call, else NoResult
  moved,           \* ids of the elements whose control points the last solve() changed
  passes,          \* applyConstraintCorrections passes made by solve() if it was the latest call
  lastConflicts,   \* return of detectConflicts() if it was the latest call
  solverTolerance, \* SolverConfig.tolerance of the solver: "1e-6" (the default) or "1e-3"
  source,          \* the Solid handed to an editing operation of SolidEngine
  tool,            \* the second Solid handed to a Boolean operation
  editOp,          \* the editing operation called and its arguments, or NoResult
  edited,          \* the Solid the editing operation returned, or NoSolid
  \* ---- a BoundaryRepresentation filled call by call ----
  builtBrep,       \* the B-Rep after the addVertex / addEdge / addFace calls made so far
  \* ---- solid engine: revolve ----
  revolveArgs,     \* [sketch, angle] handed to revolve (angle in degrees)
  revolved,        \* [thrown, solid] once revolve has returned or thrown, else NoResult
  \* ---- tool manager ----
  toolHeap,        \* the Tool objects created so far: reference -> Tool
  tools,           \* ToolManager.tools: tool id -> reference of the registered Tool
  activeTool,      \* ToolManager.activeTool: a reference, or NoTool (null)
  activeSketch     \* whether ToolManager.activeSketch is set

vars == <<sketch, distance, solid, thrown,
          features, pos, results, previousSolids, executed, published,
          lastHandler, propagated, nextId,
          vfeatures, vresult,
          geometry, angle, elements, constraints,
          lastSolve, moved, passes, lastConflicts, solverTolerance,
          source, tool, editOp, edited,
          builtBrep, revolveArgs, revolved,
          toolHeap, tools, activeTool, activeSketch>>

extrudeVars == <<sketch, distance, solid, thrown>>
regenVars == <<features, pos, results, previousSolids, executed, published,
               lastHandler, propagated, nextId>>
validateVars == <<vfeatures, vresult>>
solverVars == <<geometry, angle, elements, constraints,
                lastSolve, moved, passes, lastConflicts, solverTolerance>>
editVars == <<source, tool, editOp, edited>>
brepVars == <<builtBrep>>
revolveVars == <<revolveArgs, revolved>>
toolVars == <<toolHeap, tools, activeTool, activeSketch>>
restVars == <<brepVars, revolveVars, toolVars>>

NoSolid == [none |-> "solid"]
NoError == "none"
NoResult == [none |-> "result"]

(***************************************************************************)
(* Generic helpers                                                         *)
(***************************************************************************)
Range(s) == {s[i] : i \in 1..Len(s)}

Reverse(s) == [i \in 1..Len(s) |-> s[Len(s) + 1 - i]]

\* Map.set(k, v): insert, or replace the value held under an existing key
MapSet(m, k, v) == (k :> v) @@ m

EmptyMap == <<>>

\* F applied to the value of e, computed once
Let(e, F(_)) == CHOOSE r \in {F(x) : x \in {e}} : TRUE

\* the function f as an explicit table of its values
Eager(f) == f @@ <<>>

(***************************************************************************)
(* Bounds of the model                                                     *)
(***************************************************************************)
MaxLines == 4        \* largest number of Line elements in a sketch loop
GridMax == 2         \* sketch points are drawn from (0..GridMax) x (0..1)
MaxDist == 2         \* extrude distances are drawn from 0..MaxDist

(***************************************************************************)
(* Geometric primitives (Point arithmetic, Plane mapping)                  *)
(***************************************************************************)
PointAdd(p, q) == <<p[1] + q[1], p[2] + q[2], p[3] + q[3]>>

PointScale(p, k) == <<p[1] * k, p[2] * k, p[3] * k>>

\* Plane.XY(): normal unitZ and no uAxis given, so the constructor derives
\* uAxis = normal x unitX = (0,1,0) and vAxis = normal x uAxis = (-1,0,0)
PlaneXY == [origin |-> <<0, 0, 0>>, uAxis |-> <<0, 1, 0>>, vAxis |-> <<-1, 0, 0>>]

\* Plane.planeToWorld: origin + uAxis * x + vAxis * y
planeToWorld(pl, p) ==
  PointAdd(pl.origin, PointAdd(PointScale(pl.uAxis, p[1]), PointScale(pl.vAxis, p[2])))

\* Sketch.sketchToWorld delegates to its plane
sketchToWorld(sk, p) == planeToWorld(sk.plane, p)

(***************************************************************************)
(* B-Rep kernel.  A Vertex object is [ref, id, point]: ref is the identity *)
(* of the instance, id the generated string id (a fresh object has         *)
(* id = ref; a clone keeps the id under a new ref).  An Edge is            *)
(* [id, startVertex, endVertex], a Face [id, outerLoop, innerLoops].       *)
(* Generated ids (Date.now + Math.random) are modelled as fresh numbers.   *)
(***************************************************************************)
Vertex(ref, p) == [ref |-> ref, id |-> ref, point |-> p]

Edge(id, sv, ev) == [id |-> id, startVertex |-> sv, endVertex |-> ev]

Face(id, loop) == [id |-> id, outerLoop |-> loop, innerLoops |-> <<>>]

EmptyBRep == [vertices |-> EmptyMap, edges |-> EmptyMap, faces |-> EmptyMap]

\* a run of Map.set calls, ws[1] first: each key ends up holding the value
\* of the last write made under it
MapSetAll(m0, ws0) ==
  Let(m0, LAMBDA m : Let(ws0, LAMBDA ws :
    Let({ws[i].id : i \in 1..Len(ws)}, LAMBDA written :
      Eager([x \in (DOMAIN m) \cup written |->
               IF x \in written
               THEN ws[CHOOSE i \in 1..Len(ws) :
                         /\ ws[i].id = x
                         /\ \A j \in (i + 1)..Len(ws) : ws[j].id # x]
               ELSE m[x]]))))

addVertex(b, v) == [b EXCEPT !.vertices = MapSet(@, v.id, v)]

\* addEdge registers the edge, then its start vertex, then its end vertex
addEdge(b, e) ==
  [b EXCEPT !.edges = MapSet(@, e.id, e),
            !.vertices = MapSet(MapSet(@, e.startVertex.id, e.startVertex),
                                e.endVertex.id, e.endVertex)]

RECURSIVE FlattenFrom(_, _)
FlattenFrom(ss, i) == IF i > Len(ss) THEN <<>> ELSE ss[i] \o FlattenFrom(ss, i + 1)

\* the concatenation of the sequences of ss
Flatten(ss0) == Let(ss0, LAMBDA ss : FlattenFrom(ss, 1))

\* Face.getEdges: the outer loop followed by every inner loop
getEdges(f) == f.outerLoop \o Flatten(f.innerLoops)

\* for (const vertex of vs) brep.addVertex(vertex)
addVertexAll(b, vs) == [b EXCEPT !.vertices = MapSetAll(@, vs)]

\* the addVertex calls made by addEdge over es: start, end, start, end, ...
EdgeVertices(es0) ==
  Let(es0, LAMBDA es :
    Eager([i \in 1..(2 * Len(es)) |->
             IF i % 2 = 1 THEN es[(i + 1) \div 2].startVertex
             ELSE es[i \div 2].endVertex]))

\* for (const edge of es) brep.addEdge(edge)
addEdgeAll(b0, es0) ==
  Let(b0, LAMBDA b : Let(es0, LAMBDA es :
    [b EXCEPT !.edges = MapSetAll(@, es),
              !.vertices = MapSetAll(@, EdgeVertices(es))]))

addFace_FaceOnly(b, f) == [b EXCEPT !.faces = MapSet(@, f.id, f)]

\* addFace registers the face, then addEdge for each edge of getEdges()
addFace(b, f) == addEdgeAll([b EXCEPT !.faces = MapSet(@, f.id, f)], getEdges(f))

addFaceAll_NoFaces(b0, fs0) ==
  Let(fs0, LAMBDA fs :
    addEdgeAll(b0, Flatten(Eager([k \in 1..Len(fs) |-> getEdges(fs[k])]))))

\* brep.addFace(face) for each face of fs, in order
addFaceAll(b0, fs0) ==
  Let(b0, LAMBDA b : Let(fs0, LAMBDA fs :
    addEdgeAll([b EXCEPT !.faces = MapSetAll(@, fs)],
               Flatten(Eager([k \in 1..Len(fs) |-> getEdges(fs[k])])))))

\* Vertex.equals: the two points coincide within tolerance
VertexEquals(v, w) == v.point = w.point

LoopClosed(loop) ==
  /\ Len(loop) >= 3
  /\ \A i \in 1..Len(loop) :
       VertexEquals(loop[i].endVertex, loop[(i % Len(loop)) + 1].startVertex)

\* Face.isValid
FaceIsValid(f) ==
  /\ LoopClosed(f.outerLoop)
  /\ \A k \in 1..Len(f.innerLoops) : LoopClosed(f.innerLoops[k])

\* BoundaryRepresentation.validate: the errors it pushes, as <<kind, id>>
validate(b) ==
  LET referencedEdges ==
        {e.id : e \in UNION {Range(getEdges(b.faces[f])) : f \in DOMAIN b.faces}}
      referencedVertices ==
        UNION {{b.edges[e].startVertex.id, b.edges[e].endVertex.id} : e \in DOMAIN b.edges}
      errors ==
        {<<"Invalid face", f>> : f \in {x \in DOMAIN b.faces : ~FaceIsValid(b.faces[x])}}
        \cup {<<"Orphaned edge", e>> : e \in {x \in DOMAIN b.edges : b.edges[x].id \notin referencedEdges}}
        \cup {<<"Orphaned vertex", v>> : v \in {x \in DOMAIN b.vertices : b.vertices[x].id \notin referencedVertices}}
  IN [isValid |-> errors = {}, errors |-> errors]

(***************************************************************************)
(* Sketches                                                                *)
(***************************************************************************)
Line(id, p, q) == [id |-> id, type |-> "Line", points |-> <<p, q>>]

\* GeometryElement.getControlPoints
getControlPoints(el) == el.points

\* SolidEngine.extractSketchVertices: key `${element.id}_${i}` -> point, in
\* insertion order
RECURSIVE extractSketchVertices(_)
extractSketchVertices(els) ==
  IF els = <<>> THEN <<>>
  ELSE [i \in 1..Len(getControlPoints(Head(els))) |->
          [key |-> <<Head(els).id, i - 1>>, point |-> getControlPoints(Head(els))[i]]]
       \o extractSketchVertices(Tail(els))

\* SolidEngine.createEdgesFromSketch: one {startKey, endKey} per Line
RECURSIVE createEdgesFromSketch(_)
createEdgesFromSketch(els) ==
  IF els = <<>> THEN <<>>
  ELSE (IF Head(els).type = "Line"
        THEN <<[startKey |-> <<Head(els).id, 0>>, endKey |-> <<Head(els).id, 1>>]>>
        ELSE <<>>)
       \o createEdgesFromSketch(Tail(els))

\* Map.get(key) on a Map built in the order of the keyed sequence ks
KeyGet(ks, vs, key) == vs[CHOOSE j \in 1..Len(ks) : ks[j].key = key]

(***************************************************************************)
(* Solid construction: SolidEngine.extrude                                 *)
(***************************************************************************)
\* new Solid(brep, name): a generated id, the given name, the B-Rep
Solid(id, name, brep) == [id |-> id, name |-> name, brep |-> brep]

\* SolidEngine.extrude(sketch, distance) with the default direction (0,0,1)
\* and no taper.  base is the last id generated so far; objects get the ids
\* base+1, base+2, ... in the order the code constructs them.
extrude(sk, d, base) ==
  IF d <= 0 THEN [thrown |-> "Extrude distance must be positive", solid |-> NoSolid]
  ELSE IF sk.elements = <<>> THEN [thrown |-> "Cannot extrude empty sketch", solid |-> NoSolid]
  ELSE
    LET sketchVertices == extractSketchVertices(sk.elements)
        sketchEdges == createEdgesFromSketch(sk.elements)
        m == Len(sketchVertices)
        n == Len(sketchEdges)
        \* bottom vertices on the sketch plane, top vertices translated
        bottomVertices == [j \in 1..m |->
            Vertex(base + j, sketchToWorld(sk, sketchVertices[j].point))]
        extrudeVector == PointScale(<<0, 0, 1>>, d)
        topVertices == [j \in 1..m |->
            Vertex(base + m + j, PointAdd(bottomVertices[j].point, extrudeVector))]
        b1 == addVertexAll(addVertexAll(EmptyBRep, bottomVertices), topVertices)
        \* edges of the bottom face, of the top face, and the verticals
        bottomEdges == [i \in 1..n |->
            Edge(base + 2 * m + i,
                 KeyGet(sketchVertices, bottomVertices, sketchEdges[i].startKey),
                 KeyGet(sketchVertices, bottomVertices, sketchEdges[i].endKey))]
        topEdges == [i \in 1..n |->
            Edge(base + 2 * m + n + i,
                 KeyGet(sketchVertices, topVertices, sketchEdges[i].startKey),
                 KeyGet(sketchVertices, topVertices, sketchEdges[i].endKey))]
        verticalEdges == [j \in 1..m |->
            Edge(base + 2 * m + 2 * n + j, bottomVertices[j], topVertices[j])]
        b2 == addEdgeAll(addEdgeAll(addEdgeAll(b1, bottomEdges), topEdges), verticalEdges)
        f0 == base + 3 * m + 2 * n
        bottomFace == Face(f0 + 1, bottomEdges)
        topFace == Face(f0 + 2, Reverse(topEdges))
        \* one side face per bottom edge; i is the 0-based loop index
        sideFaces == [k \in 1..n |->
            LET i == k - 1
                bottomEdge == bottomEdges[i + 1]
                topEdge == topEdges[i + 1]
                leftVertical == verticalEdges[i + 1]
                rightVertical == verticalEdges[((i + 1) % Len(verticalEdges)) + 1]
                s0 == f0 + 2 + 3 * i
            IN Face(s0 + 3,
                    << bottomEdge,
                       rightVertical,
                       Edge(s0 + 1, topEdge.endVertex, topEdge.startVertex),
                       Edge(s0 + 2, leftVertical.endVertex, leftVertical.startVertex) >>)]
        \* addFace(bottomFace), addFace(topFace), then addFace per side face
        b3 == addFaceAll(b2, <<bottomFace, topFace>> \o sideFaces)
    IN [thrown |-> NoError,
        solid |-> Solid(f0 + 2 + 3 * n + 1, <<"Extruded", sk.name>>, b3)]

(***************************************************************************)
(* Cloning.  Map iteration follows insertion order; every B-Rep built by   *)
(* extrude, and every clone of one, is filled in ascending id order.       *)
(* A clone keeps ids and takes fresh instance refs base+1, base+2, ...     *)
(***************************************************************************)
\* Array.from(map.values())
Values(m0) ==
  Let(m0, LAMBDA m : Let(DOMAIN m, LAMBDA D :
    Eager([i \in 1..Cardinality(D) |->
             m[CHOOSE k \in D : Cardinality({x \in D : x < k}) = i - 1]])))

\* Vertex.clone: new Vertex(point, id, tolerance)
cloneVertex(v, ref) == [ref |-> ref, id |-> v.id, point |-> v.point]

\* Edge.clone: new Edge(startVertex.clone(), endVertex.clone(), id)
cloneEdge(e, base) ==
  Edge(e.id, cloneVertex(e.startVertex, base + 1), cloneVertex(e.endVertex, base + 2))

cloneLoop(loop0, base) ==
  Let(loop0, LAMBDA loop :
    Eager([k \in 1..Len(loop) |-> cloneEdge(loop[k], base + 2 * (k - 1))]))

\* Face.clone: the outer loop and every inner loop, edge by edge
cloneFace(f0, base) ==
  Let(f0, LAMBDA f :
    [id |-> f.id,
     outerLoop |-> cloneLoop(f.outerLoop, base),
     innerLoops |-> Eager([j \in 1..Len(f.innerLoops) |->
         cloneLoop(f.innerLoops[j],
                   base + 2 * Len(f.outerLoop)
                        + 2 * Len(Flatten(SubSeq(f.innerLoops, 1, j - 1))))])])

\* the edges of the faces fs[1..k], face by face
EdgesOfFaces(fs, k) == Flatten(Eager([j \in 1..k |-> getEdges(fs[j])]))

\* number of Vertex instances BoundaryRepresentation.clone creates
cloneRefs(b0) ==
  Let(b0, LAMBDA b : Let(Values(b.faces), LAMBDA fs :
    Cardinality(DOMAIN b.vertices) + 2 * Cardinality(DOMAIN b.edges)
    + 2 * Len(EdgesOfFaces(fs, Len(fs)))))

\* the clones of the vertices vs, the edges es and the faces fs, in this
\* order, taking the refs base+1, base+2, ... : [cv, ce, cf, last]
cloneAll(vs0, es0, fs0, base) ==
  Let(vs0, LAMBDA vs : Let(es0, LAMBDA es : Let(fs0, LAMBDA fs :
    [cv |-> Eager([k \in 1..Len(vs) |-> cloneVertex(vs[k], base + k)]),
     ce |-> Eager([k \in 1..Len(es) |->
                     cloneEdge(es[k], base + Len(vs) + 2 * (k - 1))]),
     cf |-> Eager([k \in 1..Len(fs) |->
                     cloneFace(fs[k], base + Len(vs) + 2 * Len(es)
                                      + 2 * Len(EdgesOfFaces(fs, k - 1)))]),
     last |-> base + Len(vs) + 2 * Len(es) + 2 * Len(EdgesOfFaces(fs, Len(fs)))])))

\* addVertex for each of vs, then addEdge for each of es, then addFace for
\* each of fs
addAll(b, vs, es, fs) == addFaceAll(addEdgeAll(addVertexAll(b, vs), es), fs)

\* BoundaryRepresentation.clone
cloneBRep(b0, base) ==
  Let(b0, LAMBDA b :
    Let(cloneAll(Values(b.vertices), Values(b.edges), Values(b.faces), base),
        LAMBDA c : addAll(EmptyBRep, c.cv, c.ce, c.cf)))

\* Solid.clone: new Solid(brep.clone(), name, id) - the clone keeps the id
cloneSolid(sd, base) == Solid(sd.id, sd.name, cloneBRep(sd.brep, base))

\* vertex.point = T(vertex.point) for every Vertex instance held by the
\* vertex map; an edge (in the edge map or in a face loop) sees the new point
\* exactly when it holds that same instance
MoveMapVertices(b0, T(_)) ==
  Let(b0, LAMBDA b : Let({b.vertices[k].ref : k \in DOMAIN b.vertices}, LAMBDA held :
    LET mv(v) == IF v.ref \in held THEN [v EXCEPT !.point = T(@)] ELSE v
        me(e) == [e EXCEPT !.startVertex = mv(@), !.endVertex = mv(@)]
        ml(loop) == Eager([k \in 1..Len(loop) |-> me(loop[k])])
    IN [vertices |-> Eager([k \in DOMAIN b.vertices |-> mv(b.vertices[k])]),
        edges |-> Eager([k \in DOMAIN b.edges |-> me(b.edges[k])]),
        faces |-> Eager([k \in DOMAIN b.faces |->
                     [b.faces[k] EXCEPT !.outerLoop = ml(@),
                                        !.innerLoops = Eager([j \in 1..Len(@) |-> ml(@[j])])]])]))

(***************************************************************************)
(* Solid editing placeholders and patterns.  Each returns                  *)
(* [solid, next]: the Solid and the last id/ref generated.                 *)
(***************************************************************************)
renamedClone_InPlace(sd0, name, base) ==
  [solid |-> [sd0 EXCEPT !.name = name], next |-> base]

\* fillet / chamfer / shell / draft / subtract / intersect: clone and rename
renamedClone(sd0, name, base) ==
  Let(sd0, LAMBDA sd :
    [solid |-> [cloneSolid(sd, base) EXCEPT !.name = name],
     next |-> base + cloneRefs(sd.brep)])

fillet(sd, base) == renamedClone(sd, <<"Filleted", sd.name>>, base)

subtract(s1, s2, base) == renamedClone(s1, <<"Subtract", s1.name, s2.name>>, base)

intersect(s1, s2, base) == renamedClone(s1, <<"Intersect", s1.name, s2.name>>, base)

\* SolidEngine.union: a new B-Rep given clones of the vertices of solid1 then
\* solid2, of their edges, and of their faces
union(s1, s2, base) ==
  Let(cloneAll(Values(s1.brep.vertices) \o Values(s2.brep.vertices),
               Values(s1.brep.edges) \o Values(s2.brep.edges),
               Values(s1.brep.faces) \o Values(s2.brep.faces), base),
      LAMBDA c :
        [solid |-> Solid(c.last + 1, <<"Union", s1.name, s2.name>>,
                         addAll(EmptyBRep, c.cv, c.ce, c.cf)),
         next |-> c.last + 1])

\* the B-Rep a pattern builds from count clones of sd: clone i (0-based) has
\* its map-held vertices moved by T(_, i) and is then added vertex by vertex,
\* edge by edge, face by face
RECURSIVE patternBRep(_, _, _, _, _, _)
patternBRep(acc0, sd, T(_, _), i, count, base) ==
  IF i >= count THEN acc0
  ELSE Let(acc0, LAMBDA acc :
         Let(MoveMapVertices(cloneBRep(sd.brep, base), LAMBDA pt : T(pt, i)),
             LAMBDA inst :
               patternBRep(addAll(acc, Values(inst.vertices), Values(inst.edges),
                                  Values(inst.faces)),
                           sd, T, i + 1, count, base + cloneRefs(sd.brep))))

\* SolidEngine.linearPattern, direction already normalized
linearPattern(sd0, direction, spacing, count, base) ==
  Let(sd0, LAMBDA sd : Let(base + cloneRefs(sd.brep) * count + 1, LAMBDA id :
    [solid |-> Solid(id, <<"LinearPattern", sd.name>>,
                     patternBRep(EmptyBRep, sd,
                                 LAMBDA pt, i : PointAdd(pt, PointScale(direction, spacing * i)),
                                 0, count, base)),
     next |-> id]))

\* Vector.normalize for a vector along one coordinate axis (zero stays zero)
normalize(v) ==
  [i \in 1..3 |-> IF v[i] > 0 THEN 1 ELSE IF v[i] < 0 THEN -1 ELSE 0]

Dot(p, q) == p[1] * q[1] + p[2] * q[2] + p[3] * q[3]

PointSub(p, q) == <<p[1] - q[1], p[2] - q[2], p[3] - q[3]>>

mirrorPointAcrossPlane(point, planePoint, planeNormal) ==
  LET normal == normalize(planeNormal)
      dist == Dot(PointSub(point, planePoint), normal)
  IN PointSub(point, PointScale(normal, 2 * dist))

\* SolidEngine.mirror: the clone's map-held vertices are mirrored in place
mirror(sd0, planePoint, planeNormal, base) ==
  Let(sd0, LAMBDA sd :
    [solid |-> [cloneSolid(sd, base) EXCEPT
                  !.name = <<"Mirrored", sd.name>>,
                  !.brep = MoveMapVertices(@,
                      LAMBDA pt : mirrorPointAcrossPlane(pt, planePoint, planeNormal))],
     next |-> base + cloneRefs(sd.brep)])

\* Rodrigues rotation by a whole number q of quarter turns about a coordinate
\* axis through axisPoint (cos and sin are then 0, 1 or -1)
revolvePointAroundAxis(point, axisPoint, axisDirection, q) ==
  LET t == PointSub(point, axisPoint)
      axis == normalize(axisDirection)
      cos == <<1, 0, -1, 0>>[(q % 4) + 1]
      sin == <<0, 1, 0, -1>>[(q % 4) + 1]
      omc == 1 - cos
      x == t[1]
      y == t[2]
      z == t[3]
      rx == (cos + axis[1] * axis[1] * omc) * x
            + (axis[1] * axis[2] * omc - axis[3] * sin) * y
            + (axis[1] * axis[3] * omc + axis[2] * sin) * z
      ry == (axis[2] * axis[1] * omc + axis[3] * sin) * x
            + (cos + axis[2] * axis[2] * omc) * y
            + (axis[2] * axis[3] * omc - axis[1] * sin) * z
      rz == (axis[3] * axis[1] * omc - axis[2] * sin) * x
            + (axis[3] * axis[2] * omc + axis[1] * sin) * y
            + (cos + axis[3] * axis[3] * omc) * z
  IN PointAdd(<<rx, ry, rz>>, axisPoint)

\* SolidEngine.circularPattern for an angle step of quarterStep quarter turns
\* (angle / count = 90 * quarterStep degrees)
circularPattern(sd0, axisPoint, axisDirection, quarterStep, count, base) ==
  Let(sd0, LAMBDA sd : Let(base + cloneRefs(sd.brep) * count + 1, LAMBDA id :
    [solid |-> Solid(id, <<"CircularPattern", sd.name>>,
                     patternBRep(EmptyBRep, sd,
                                 LAMBDA pt, i : revolvePointAroundAxis(pt, axisPoint,
                                                    axisDirection, quarterStep * i),
                                 0, count, base)),
     next |-> id]))

chamfer(sd, base) == renamedClone(sd, <<"Chamfered", sd.name>>, base)

shell(sd, base) == renamedClone(sd, <<"Shelled", sd.name>>, base)

draft(sd, base) == renamedClone(sd, <<"Drafted", sd.name>>, base)

(***************************************************************************)
(* FeatureEngine.  A Feature is                                            *)
(*   [id, name, type, isActive, dependencies, sketch, parameters];         *)
(* parameters is a record holding exactly the keys that are set, or        *)
(* NullParams when the public field was set to null.  A handler ends as    *)
(* [thrown, result, next]: the Error that escaped it (or NoError), the     *)
(* FeatureResult it returned, and the last id generated.  The revolve,     *)
(* loft and sweep handlers are registered but not modelled; the inputs     *)
(* hold no feature of these types.                                         *)
(***************************************************************************)
NoSketch == [none |-> "sketch"]
NullParams == [null |-> TRUE]
TypeError == "TypeError: cannot read properties of null or undefined"

Has(p, key) == key \in DOMAIN p

Failure(msg) ==
  [success |-> FALSE, solid |-> NoSolid, errors |-> <<msg>>, warnings |-> <<>>]

Success(sd) ==
  [success |-> TRUE, solid |-> sd, errors |-> <<>>, warnings |-> <<>>]

Returned(result, next) == [thrown |-> NoError, result |-> result, next |-> next]

Threw(msg, next) == [thrown |-> msg, result |-> NoResult, next |-> next]

\* context.previousSolids.get(feature.parameters[key])
GetSolid(context, p, key) ==
  IF Has(p, key) /\ p[key] \in DOMAIN context.previousSolids
  THEN context.previousSolids[p[key]]
  ELSE NoSolid

handleExtrude(feature, context, base) ==
  LET p == feature.parameters IN
  IF feature.sketch = NoSketch
  THEN Returned(Failure("Extrude feature requires a sketch"), base)
  ELSE IF p = NullParams THEN Threw(TypeError, base)
  ELSE IF ~Has(p, "distance") \/ p.distance <= 0
  THEN Returned(Failure("Extrude distance must be a positive number"), base)
  ELSE Let(extrude(feature.sketch, p.distance, base), LAMBDA r :
         IF r.thrown # NoError
         THEN Returned(Failure(r.thrown), base)
         ELSE Returned(Success(r.solid), r.solid.id))

\* the common shape of handleFillet, handleChamfer, handleShell, handleDraft:
\* look the target up, check one numeric parameter, call the solid operation
targetHandler(feature, context, base, kind, numKey, positive, op(_, _)) ==
  LET p == feature.parameters IN
  IF p = NullParams THEN Threw(TypeError, base)
  ELSE LET targetSolid == GetSolid(context, p, "targetSolid") IN
       IF targetSolid = NoSolid
       THEN Returned(Failure(<<kind, "feature requires a target solid">>), base)
       ELSE IF ~Has(p, numKey) \/ (positive /\ p[numKey] <= 0)
       THEN Returned(Failure(<<kind, numKey, "must be a number", positive>>), base)
       ELSE Let(op(targetSolid, base), LAMBDA r : Returned(Success(r.solid), r.next))

handleFillet(feature, context, base) ==
  targetHandler(feature, context, base, "Fillet", "radius", TRUE, fillet)

handleChamfer(feature, context, base) ==
  targetHandler(feature, context, base, "Chamfer", "distance", TRUE, chamfer)

handleShell(feature, context, base) ==
  targetHandler(feature, context, base, "Shell", "thickness", TRUE, shell)

handleDraft(feature, context, base) ==
  targetHandler(feature, context, base, "Draft", "angle", FALSE, draft)

handlePattern(feature, context, base) ==
  LET p == feature.parameters IN
  IF p = NullParams THEN Threw(TypeError, base)
  ELSE LET targetSolid == GetSolid(context, p, "targetSolid")
           patternType == IF Has(p, "patternType") THEN p.patternType ELSE "undefined"
           count == IF Has(p, "count") /\ p.count # 0 THEN p.count ELSE 2
       IN
       IF targetSolid = NoSolid
       THEN Returned(Failure("Pattern feature requires a target solid"), base)
       ELSE IF patternType = "linear"
       THEN IF ~Has(p, "direction")
            THEN Returned(Failure(TypeError), base)
            ELSE Let(linearPattern(targetSolid, normalize(p.direction),
                                        p.spacing, count, base),
                     LAMBDA r : Returned(Success(r.solid), r.next))
       ELSE IF patternType = "circular"
       THEN IF ~Has(p, "axis")
            THEN Returned(Failure(TypeError), base)
            ELSE Let(circularPattern(targetSolid, p.axis.point, p.axis.direction,
                                          p.quarterStep, count, base),
                     LAMBDA r : Returned(Success(r.solid), r.next))
       ELSE IF patternType = "mirror"
       THEN IF ~Has(p, "plane")
            THEN Returned(Failure(TypeError), base)
            ELSE Let(mirror(targetSolid, p.plane.point, p.plane.normal, base),
                     LAMBDA r : Returned(Success(r.solid), r.next))
       ELSE Returned(Failure(<<"Unknown pattern type", patternType>>), base)

handleBoolean(feature, context, base) ==
  LET p == feature.parameters IN
  IF p = NullParams THEN Threw(TypeError, base)
  ELSE LET solid1 == GetSolid(context, p, "solid1")
           solid2 == GetSolid(context, p, "solid2")
           operation == IF Has(p, "operation") THEN p.operation ELSE "undefined"
       IN
       IF solid1 = NoSolid \/ solid2 = NoSolid
       THEN Returned(Failure("Boolean feature requires two valid solids"), base)
       ELSE IF operation = "union"
       THEN Let(union(solid1, solid2, base), LAMBDA r : Returned(Success(r.solid), r.next))
       ELSE IF operation = "subtract"
       THEN Let(subtract(solid1, solid2, base), LAMBDA r : Returned(Success(r.solid), r.next))
       ELSE IF operation = "intersect"
       THEN Let(intersect(solid1, solid2, base), LAMBDA r : Returned(Success(r.solid), r.next))
       ELSE Returned(Failure(<<"Unknown boolean operation", operation>>), base)

\* the keys of featureHandlers after initializeFeatureHandlers
featureHandlers ==
  {"extrude", "revolve", "loft", "sweep", "fillet",
   "chamfer", "shell", "draft", "pattern", "boolean"}

\* handler(feature, context) for the handler registered under feature.type
callHandler(feature, context, base) ==
  CASE feature.type = "extrude" -> handleExtrude(feature, context, base)
    [] feature.type = "fillet" -> handleFillet(feature, context, base)
    [] feature.type = "chamfer" -> handleChamfer(feature, context, base)
    [] feature.type = "shell" -> handleShell(feature, context, base)
    [] feature.type = "draft" -> handleDraft(feature, context, base)
    [] feature.type = "pattern" -> handlePattern(feature, context, base)
    [] feature.type = "boolean" -> handleBoolean(feature, context, base)

executeFeature_NoCatch(feature, context, base) ==
  IF feature.type \notin featureHandlers
  THEN [how |-> "noHandler", thrown |-> NoError,
        result |-> Failure(<<"No handler found for feature type", feature.type>>),
        next |-> base]
  ELSE Let(callHandler(feature, context, base), LAMBDA h :
         [how |-> IF h.thrown # NoError THEN "threw" ELSE "returned",
          thrown |-> h.thrown, result |-> h.result, next |-> h.next])

\* HandlerEnds: "noHandler" (none registered), "returned", "threw"; the
\* outcome's thrown is what escapes executeFeature itself
executeFeature(feature, context, base) ==
  IF feature.type \notin featureHandlers
  THEN [how |-> "noHandler", thrown |-> NoError,
        result |-> Failure(<<"No handler found for feature type", feature.type>>),
        next |-> base]
  ELSE Let(callHandler(feature, context, base), LAMBDA h :
         IF h.thrown # NoError
         THEN [how |-> "threw", thrown |-> NoError,
               result |-> Failure(h.thrown), next |-> h.next]
         ELSE [how |-> "returned", thrown |-> NoError,
               result |-> h.result, next |-> h.next])

(***************************************************************************)
(* FeatureEngine.validateFeatureDependencies.  The closure state is        *)
(* [errors, visited, visiting]; an error is <<"nonexistent", name, depId>> *)
(* or <<"circular", name>>.                                                *)
(***************************************************************************)
\* features.find(f => f.id === depId): the list position, 0 when absent
find(fs, depId) ==
  IF \E i \in 1..Len(fs) : fs[i].id = depId
  THEN CHOOSE i \in 1..Len(fs) : fs[i].id = depId /\ \A j \in 1..(i - 1) : fs[j].id # depId
  ELSE 0

\* the first loop: one error per dependency id that is not in featureIds
missingErrors_None(fs) == <<>>

missingErrors(fs) ==
  LET featureIds == {fs[i].id : i \in 1..Len(fs)}
      ofFeature(f) ==
        SelectSeq([k \in 1..Len(f.dependencies) |->
                     <<"nonexistent", f.name, f.dependencies[k]>>],
                  LAMBDA e : e[3] \notin featureIds)
  IN Flatten(Eager([i \in 1..Len(fs) |-> ofFeature(fs[i])]))

RECURSIVE checkCircular_NoError(_, _, _), checkCircular(_, _, _), checkDeps(_, _, _, _)
checkCircular_NoError(fs, i, st) ==
  IF fs[i].id \in st.visiting
  THEN [ok |-> FALSE, st |-> st]
  ELSE IF fs[i].id \in st.visited
  THEN [ok |-> TRUE, st |-> st]
  ELSE checkDeps(fs, i, 1, [st EXCEPT !.visiting = @ \cup {fs[i].id}])

\* checkCircular(feature) for the feature at list position i: [ok, st]
checkCircular(fs, i, st) ==
  IF fs[i].id \in st.visiting
  THEN [ok |-> FALSE,
        st |-> [st EXCEPT !.errors = Append(@, <<"circular", fs[i].name>>)]]
  ELSE IF fs[i].id \in st.visited
  THEN [ok |-> TRUE, st |-> st]
  ELSE checkDeps(fs, i, 1, [st EXCEPT !.visiting = @ \cup {fs[i].id}])

\* the for-loop of checkCircular over feature.dependencies from index k on,
\* then visiting.delete and visited.add; a false from a dependency returns
\* at once and leaves visiting as it is
checkDeps(fs, i, k, st0) ==
  Let(st0, LAMBDA st :
    IF k > Len(fs[i].dependencies)
    THEN [ok |-> TRUE,
          st |-> [st EXCEPT !.visiting = @ \ {fs[i].id},
                            !.visited = @ \cup {fs[i].id}]]
    ELSE Let(find(fs, fs[i].dependencies[k]), LAMBDA d :
           IF d = 0 THEN checkDeps(fs, i, k + 1, st)
           ELSE Let(checkCircular(fs, d, st), LAMBDA r :
                  IF ~r.ok THEN [ok |-> FALSE, st |-> r.st]
                  ELSE checkDeps(fs, i, k + 1, r.st))))

\* the last loop: checkCircular on every feature not yet visited, from
\* list position i on
RECURSIVE checkAll(_, _, _)
checkAll(fs, i, st0) ==
  Let(st0, LAMBDA st :
    IF i > Len(fs) THEN st
    ELSE IF fs[i].id \in st.visited THEN checkAll(fs, i + 1, st)
    ELSE checkAll(fs, i + 1, checkCircular(fs, i, st).st))

validateFeatureDependencies(fs) ==
  Let(checkAll(fs, 1, [errors |-> missingErrors(fs), visited |-> {}, visiting |-> {}]),
      LAMBDA st : [isValid |-> st.errors = <<>>, errors |-> st.errors])

(***************************************************************************)
(* ConstraintSolver.  An element is [id, type, points, perturbed]; a       *)
(* perturbed element no longer has the control points it was built with. A *)
(* constraint is [id, type, elements, status] with elements the ids of the *)
(* two GeometryElements it was built from.  calculateError() is kept as    *)
(* its class: "zero" (below 1e-6), "small" (about 1e-5: not below 1e-6,    *)
(* and so small that the root of a sum of squares of such errors is below  *)
(* 1e-3), "positive" (finite, above 1e-3) or "infinite".  For two distinct *)
(* Lines it follows from how they lie to each other: "parallel",           *)
(* "nearParallel" (a Parallel error that is small), "perpendicular" or     *)
(* "oblique".  The                                                         *)
(* random corrections of the solving loop leave a corrected element        *)
(* perturbed and the angle between corrected Lines arbitrary.              *)
(***************************************************************************)
AngleClasses == {"parallel", "nearParallel", "perpendicular", "oblique"}

Constraint(id, type, e1, e2) ==
  [id |-> id, type |-> type, elements |-> <<e1, e2>>, status |-> "violated"]

\* the angle class of the lines p[1]-p[2] and q[1]-q[2]
angleOf(p, q) ==
  LET d == <<p[2][1] - p[1][1], p[2][2] - p[1][2]>>
      e == <<q[2][1] - q[1][1], q[2][2] - q[1][2]>>
  IN IF d[1] * e[2] - d[2] * e[1] = 0 THEN "parallel"
     ELSE IF d[1] * e[1] + d[2] * e[2] = 0 THEN "perpendicular"
     ELSE "oblique"

calculateError_ParallelTest(c, geo, ang) ==
  IF geo[c.elements[1]].type # "Line" \/ geo[c.elements[2]].type # "Line"
  THEN "infinite"
  ELSE IF c.elements[1] = c.elements[2] \/ ang = "parallel" THEN "zero" ELSE "positive"

\* ParallelConstraint / PerpendicularConstraint .calculateError
calculateError(c, geo, ang) ==
  IF geo[c.elements[1]].type # "Line" \/ geo[c.elements[2]].type # "Line"
  THEN "infinite"
  ELSE LET cls == IF c.elements[1] = c.elements[2] THEN "parallel" ELSE ang
       IN IF c.type = "Parallel"
          THEN (IF cls = "parallel" THEN "zero"
                ELSE IF cls = "nearParallel" THEN "small" ELSE "positive")
          ELSE (IF cls = "perpendicular" THEN "zero" ELSE "positive")

\* Constraint.isSatisfied: |error| < this.tolerance, the tolerance of the
\* Constraint, which its constructor sets to 1e-6
isSatisfied(c, geo, ang) == calculateError(c, geo, ang) = "zero"

\* ConstraintSolver.calculateTotalError: non-finite errors are left out
calculateTotalError(cs, geo, ang) ==
  IF \E k \in 1..Len(cs) : calculateError(cs[k], geo, ang) = "positive"
  THEN "positive"
  ELSE IF \E k \in 1..Len(cs) : calculateError(cs[k], geo, ang) = "small"
  THEN "small"
  ELSE "zero"

\* error > this.config.tolerance and error < this.config.tolerance, for an
\* error or a total error given by its class
aboveTolerance(err) ==
  err = "positive" \/ (err = "small" /\ solverTolerance = "1e-6")

belowTolerance(err) ==
  err = "zero" \/ (err = "small" /\ solverTolerance = "1e-3")

\* updateConstraintStatuses: constraint.updateStatus() for every constraint
updateConstraintStatuses(cs, geo, ang) ==
  Eager([k \in 1..Len(cs) |->
     [cs[k] EXCEPT !.status = IF isSatisfied(cs[k], geo, ang)
                              THEN "satisfied" ELSE "violated"]])

getMaxConstraintsForElement(element) ==
  CASE element.type = "Line" -> 4
    [] element.type = "Circle" -> 3
    [] element.type = "Arc" -> 5
    [] OTHER -> 2

\* the pushes of the grouping loop, in order: one [element, constraint] per
\* entry of constraint.elements
ElementRefs(cs) ==
  Flatten(Eager([k \in 1..Len(cs) |->
     Eager([j \in 1..Len(cs[k].elements) |->
        [element |-> cs[k].elements[j], constraint |-> cs[k].id]])]))

\* elementConstraints.slice(maxConstraints) for an over-constrained element
excessOf(refs, e, els, geo) ==
  LET l == SelectSeq(refs, LAMBDA r : r.element = e)
      maxConstraints == getMaxConstraintsForElement(geo[e])
  IN IF e \notin Range(els) THEN <<>>
     ELSE IF Len(l) > maxConstraints
     THEN Eager([k \in 1..(Len(l) - maxConstraints) |-> l[maxConstraints + k].constraint])
     ELSE <<>>

\* ConstraintSolver.detectConflicts: the ids of the constraints it returns;
\* constraintsByElement is gone through in the order its keys were first set
detectConflicts(cs, els, geo) ==
  Let(ElementRefs(cs), LAMBDA refs :
    Let(SelectSeq(Eager([i \in 1..Len(refs) |-> i]),
                  LAMBDA i : \A j \in 1..(i - 1) : refs[j].element # refs[i].element),
        LAMBDA firsts :
          Flatten(Eager([k \in 1..Len(firsts) |->
                     excessOf(refs, refs[firsts[k]].element, els, geo)]))))

\* configured SolverConfig.maxIterations
maxIterations == 2

\* ids of the constraints whose status is Violated, in Map order
ViolatedIds(cs) ==
  Let(SelectSeq(cs, LAMBDA c : c.status = "violated"), LAMBDA v :
    Eager([k \in 1..Len(v) |-> v[k].id]))

SolverResult(success, iterations, finalError, conflicted) ==
  [success |-> success, iterations |-> iterations, finalError |-> finalError,
   conflictedConstraints |-> conflicted]

\* the runs of the solving loop from the top of the while statement, with
\* `iteration` iterations counted and `n` passes made so far and the Lines at
\* angle ang: [angle, iterations, passes] when the loop is left.  A pass
\* leaves the corrected Lines at any angle; the convergence test
\* |totalError - previousError| < tolerance * 0.1 may break out of any pass.
RECURSIVE loopRuns_OneMore(_, _, _, _, _), loopRuns(_, _, _, _, _)
loopRuns_OneMore(cs1, geo, ang, iteration, n) ==
  IF iteration <= maxIterations /\ aboveTolerance(calculateTotalError(cs1, geo, ang))
  THEN UNION {{[angle |-> ang2, iterations |-> iteration, passes |-> n + 1]}
                \cup loopRuns_OneMore(cs1, geo, ang2, iteration + 1, n + 1) :
              ang2 \in AngleClasses}
  ELSE {[angle |-> ang, iterations |-> iteration, passes |-> n]}

loopRuns(cs1, geo, ang, iteration, n) ==
  IF iteration < maxIterations /\ aboveTolerance(calculateTotalError(cs1, geo, ang))
  THEN UNION {{[angle |-> ang2, iterations |-> iteration, passes |-> n + 1]}
                \cup loopRuns(cs1, geo, ang2, iteration + 1, n + 1) :
              ang2 \in AngleClasses}
  ELSE {[angle |-> ang, iterations |-> iteration, passes |-> n]}

solveLoop_StaleStatuses(cs1, geo, ang, ang2, i, n) ==
  LET touched == UNION {Range(cs1[k].elements) :
                          k \in {x \in 1..Len(cs1) :
                                   /\ cs1[x].status = "violated"
                                   /\ aboveTolerance(calculateError(cs1[x], geo, ang))}}
      geo2 == [e \in DOMAIN geo |->
                 IF e \in touched THEN [geo[e] EXCEPT !.perturbed = TRUE] ELSE geo[e]]
      cs2 == cs1
      total == calculateTotalError(cs2, geo2, ang2)
  IN [constraints |-> cs2, geometry |-> geo2, angle |-> ang2, moved |-> touched,
      passes |-> n,
      result |-> SolverResult(belowTolerance(total), i, total, ViolatedIds(cs2))]

\* what solve() leaves behind when at least one pass of
\* applyConstraintCorrections ran: the elements of the constraints that were
\* Violated with a finite error above tolerance are perturbed, the angle is
\* ang2, the loop counted i iterations in n passes
solveLoop(cs1, geo, ang, ang2, i, n) ==
  LET touched == UNION {Range(cs1[k].elements) :
                          k \in {x \in 1..Len(cs1) :
                                   /\ cs1[x].status = "violated"
                                   /\ aboveTolerance(calculateError(cs1[x], geo, ang))}}
      geo2 == [e \in DOMAIN geo |->
                 IF e \in touched THEN [geo[e] EXCEPT !.perturbed = TRUE] ELSE geo[e]]
      cs2 == updateConstraintStatuses(cs1, geo2, ang2)
      total == calculateTotalError(cs2, geo2, ang2)
  IN [constraints |-> cs2, geometry |-> geo2, angle |-> ang2, moved |-> touched,
      passes |-> n,
      result |-> SolverResult(belowTolerance(total), i, total, ViolatedIds(cs2))]

solve_CorrectsFirst(cs, els, geo, ang) ==
  {solveLoop(updateConstraintStatuses(cs, geo, ang), geo, ang, ang2, 1, 1) :
     ang2 \in AngleClasses}

\* ConstraintSolver.solve: the set of its possible outcomes
\* [constraints, geometry, angle, moved, passes, result]
solve(cs, els, geo, ang) ==
  LET totalError == calculateTotalError(cs, geo, ang)
      cs1 == updateConstraintStatuses(cs, geo, ang)
      conflicts == detectConflicts(cs1, els, geo)
  IN IF conflicts # <<>>
     THEN {[constraints |-> cs1, geometry |-> geo, angle |-> ang, moved |-> {},
            passes |-> 0,
            result |-> SolverResult(FALSE, 0, totalError, conflicts)]}
     ELSE IF maxIterations = 0 \/ ~aboveTolerance(totalError)
     THEN {[constraints |-> cs1, geometry |-> geo, angle |-> ang, moved |-> {},
            passes |-> 0,
            result |-> SolverResult(belowTolerance(totalError), 0, totalError,
                                    ViolatedIds(cs1))]}
     ELSE {solveLoop(cs1, geo, ang, run.angle, run.iterations, run.passes) :
             run \in loopRuns(cs1, geo, ang, 0, 0)}

(***************************************************************************)
(* Inputs of extrude: closed loops of Line elements (element i joins       *)
(* polygon corner i to corner i+1, the last one back to the first), on     *)
(* the XY plane, and the empty sketch.                                     *)
(***************************************************************************)
Grid == (0..GridMax) \X (0..1)

Polygons(n) ==
  {P \in [1..n -> Grid] : \A i, j \in 1..n : i # j => P[i] # P[j]}

LoopSketch(P) ==
  [name |-> "S", plane |-> PlaneXY,
   elements |-> [i \in 1..Len(P) |-> Line(i, P[i], P[(i % Len(P)) + 1])]]

EmptySketch == [name |-> "S", plane |-> PlaneXY, elements |-> <<>>]

SketchInputs ==
  {EmptySketch} \cup {LoopSketch(P) : P \in UNION {Polygons(n) : n \in 3..MaxLines}}

\* the sketch is a closed loop of Lines: each Line ends where the next starts
IsClosedLineLoop(sk) ==
  /\ Len(sk.elements) >= 3
  /\ \A i \in 1..Len(sk.elements) :
       /\ sk.elements[i].type = "Line"
       /\ sk.elements[i].points[2] =
            sk.elements[(i % Len(sk.elements)) + 1].points[1]

ExtrudeIdle ==
  /\ sketch = EmptySketch /\ distance = 0 /\ solid = NoSolid /\ thrown = NoError

RegenIdle ==
  /\ features = <<>> /\ pos = 0 /\ results = EmptyMap
  /\ previousSolids = EmptyMap /\ executed = <<>> /\ published = {}
  /\ lastHandler = "none" /\ propagated = NoError /\ nextId = 0

ValidateIdle == vfeatures = <<>> /\ vresult = NoResult

SolverIdle ==
  /\ geometry = EmptyMap /\ angle = "none" /\ elements = <<>> /\ constraints = <<>>
  /\ lastSolve = NoResult /\ moved = {} /\ passes = 0
  /\ lastConflicts = NoResult /\ solverTolerance = "1e-6"

EditIdle ==
  /\ source = NoSolid /\ tool = NoSolid /\ editOp = NoResult /\ edited = NoSolid

BRepIdle == builtBrep = EmptyBRep

RevolveIdle == revolveArgs = NoResult /\ revolved = NoResult

NoTool == 0

ToolsIdle ==
  toolHeap = <<>> /\ tools = <<>> /\ activeTool = NoTool /\ activeSketch = FALSE

RestIdle == BRepIdle /\ RevolveIdle /\ ToolsIdle

InitExtrude ==
  /\ sketch \in SketchInputs
  /\ distance \in 0..MaxDist
  /\ solid = NoSolid
  /\ thrown = NoError
  /\ RegenIdle /\ ValidateIdle /\ SolverIdle /\ EditIdle /\ RestIdle

\* one call extrude(sketch, distance) on a fresh engine
Extrude ==
  /\ solid = NoSolid /\ thrown = NoError
  /\ LET r == extrude(sketch, distance, 0) IN
       /\ solid' = r.solid
       /\ thrown' = r.thrown
  /\ UNCHANGED <<sketch, distance, regenVars, validateVars, solverVars, editVars, restVars>>

NextExtrude == Extrude

SpecExtrude == InitExtrude /\ [][NextExtrude]_vars

\* the call returned a Solid for a closed loop of Lines and a positive distance
ExtrudedLoop ==
  /\ solid # NoSolid
  /\ distance > 0
  /\ IsClosedLineLoop(sketch)

C1_NoOrphans ==
  ExtrudedLoop =>
    \A err \in validate(solid.brep).errors :
      err[1] \notin {"Orphaned edge", "Orphaned vertex"}

(***************************************************************************)
(* regenerateFeatures, one loop iteration per step.  The feature at list   *)
(* position i has id i; dependencies and target ids range over all ids of  *)
(* the list bound, so a feature may name one that comes later in the list, *)
(* one that is missing, or itself.                                         *)
(***************************************************************************)
MaxFeatures == 2     \* longest feature list handed to regenerateFeatures

FeatureIds == 1..MaxFeatures

TriSketch == LoopSketch(<<<<0, 0>>, <<1, 0>>, <<0, 1>>>>)

\* a Solid left in context.previousSolids by an earlier regeneration
StaleSolid == extrude(TriSketch, 1, 0).solid

Feature(id, type, isActive, dependencies, sk, parameters) ==
  [id |-> id, name |-> <<"F", id>>, type |-> type, isActive |-> isActive,
   dependencies |-> dependencies, sketch |-> sk, parameters |-> parameters]

DepsOn(id, t) == IF t = id THEN <<>> ELSE <<t>>

FeatureShapes ==
  {[kind |-> k, target |-> 0] :
      k \in {"extrude", "extrudeEmpty", "inactive", "unknownType", "nullParams"}}
  \cup {[kind |-> k, target |-> t] :
      k \in {"fillet", "pattern", "boolean"}, t \in FeatureIds}

MakeFeature(id, shape) ==
  CASE shape.kind = "extrude" ->
         Feature(id, "extrude", TRUE, <<>>, TriSketch, [distance |-> 1])
    [] shape.kind = "extrudeEmpty" ->
         Feature(id, "extrude", TRUE, <<>>, EmptySketch, [distance |-> 1])
    [] shape.kind = "inactive" ->
         Feature(id, "extrude", FALSE, <<>>, TriSketch, [distance |-> 1])
    [] shape.kind = "unknownType" ->
         Feature(id, "hole", TRUE, <<>>, NoSketch, [diameter |-> 1])
    [] shape.kind = "nullParams" ->
         Feature(id, "fillet", TRUE, <<>>, NoSketch, NullParams)
    [] shape.kind = "fillet" ->
         Feature(id, "fillet", TRUE, DepsOn(id, shape.target), NoSketch,
                 [targetSolid |-> shape.target, radius |-> 1])
    [] shape.kind = "pattern" ->
         Feature(id, "pattern", TRUE, DepsOn(id, shape.target), NoSketch,
                 [targetSolid |-> shape.target, patternType |-> "linear",
                  direction |-> <<2, 0, 0>>, spacing |-> 3])
    [] shape.kind = "boolean" ->
         Feature(id, "boolean", TRUE, DepsOn(id, shape.target), NoSketch,
                 [solid1 |-> shape.target, solid2 |-> shape.target,
                  operation |-> "union"])

InitRegen ==
  /\ \E n \in 1..MaxFeatures : \E shapes \in [1..n -> FeatureShapes] :
       features = [i \in 1..n |-> MakeFeature(i, shapes[i])]
  /\ previousSolids \in {EmptyMap} \cup {(t :> StaleSolid) : t \in FeatureIds}
  /\ pos = 0
  /\ results = EmptyMap
  /\ executed = <<>>
  /\ published = {}
  /\ lastHandler = "none"
  /\ propagated = NoError
  /\ nextId = StaleSolid.id
  /\ ExtrudeIdle /\ ValidateIdle /\ SolverIdle /\ EditIdle /\ RestIdle

\* the loop has a next entry to look at
RegenRunning == pos < Len(features) /\ propagated = NoError

\* if (!feature.isActive) continue
SkipInactive ==
  /\ RegenRunning
  /\ ~features[pos + 1].isActive
  /\ pos' = pos + 1
  /\ UNCHANGED <<features, results, previousSolids, executed, published,
                 lastHandler, propagated, nextId>>
  /\ UNCHANGED <<extrudeVars, validateVars, solverVars, editVars, restVars>>

\* results.set(feature.id, result)
recordResult_SuccessOnly(res, feature, result) ==
  IF result.success THEN MapSet(res, feature.id, result) ELSE res

recordResult(res, feature, result) == MapSet(res, feature.id, result)

\* if (result.success && result.solid) previousSolids.set(feature.id, result.solid)
publish_Always(solids, feature, result) == MapSet(solids, feature.id, result.solid)

publish(solids, feature, result) ==
  IF result.success /\ result.solid # NoSolid
  THEN MapSet(solids, feature.id, result.solid)
  ELSE solids

\* executeFeature, results.set, and previousSolids.set on success with a solid;
\* an Error escaping executeFeature would leave the loop and the method
ExecuteActive ==
  /\ RegenRunning
  /\ features[pos + 1].isActive
  /\ \E feature \in {features[pos + 1]} :
     \E o \in {executeFeature(feature, [previousSolids |-> previousSolids], nextId)} :
        /\ lastHandler' = o.how
        /\ nextId' = o.next
        /\ executed' = Append(executed, feature.id)
        /\ IF o.thrown # NoError
           THEN /\ propagated' = o.thrown
                /\ UNCHANGED <<pos, results, previousSolids, published>>
           ELSE /\ propagated' = NoError
                /\ pos' = pos + 1
                /\ results' = recordResult(results, feature, o.result)
                /\ previousSolids' = publish(previousSolids, feature, o.result)
                /\ published' = IF previousSolids' # previousSolids
                                THEN published \cup {feature.id}
                                ELSE published
  /\ UNCHANGED features
  /\ UNCHANGED <<extrudeVars, validateVars, solverVars, editVars, restVars>>

NextRegen == SkipInactive \/ ExecuteActive

SpecRegen == InitRegen /\ [][NextRegen]_vars

\* position of id in the execution order, 0 when it was not executed
ExecIndex(id) ==
  IF \E a \in 1..Len(executed) : executed[a] = id
  THEN CHOOSE a \in 1..Len(executed) : executed[a] = id
  ELSE 0

\* feature F (at list position i) lists the id of the other active feature G
\* (at position j) among its dependencies
DependsOn(i, j) ==
  /\ i # j
  /\ features[i].isActive /\ features[j].isActive
  /\ features[j].id \in Range(features[i].dependencies)

\* C3: regeneration runs in a topological order of the dependency graph: when
\* an active feature F depends on an active feature G, then by the time F has
\* been executed G was executed before it, whatever the order of the list.
C3_TopologicalOrder ==
  \A i, j \in 1..Len(features) :
    (DependsOn(i, j) /\ ExecIndex(features[i].id) > 0)
      => (ExecIndex(features[j].id) > 0
          /\ ExecIndex(features[j].id) < ExecIndex(features[i].id))

\* the ids of the active features among the first k entries of the list
ActiveIds(k) == {features[i].id : i \in {x \in 1..k : features[x].isActive}}

\* C4: no failure ends the loop of regenerateFeatures early, and results holds
\* an entry for exactly the active features the loop has gone through; so the
\* map returned at the end of the list has an entry for every active feature
\* and none for an inactive one, also when an earlier feature failed or its
\* handler threw.
C4_ResultPerActive ==
  /\ propagated = NoError
  /\ pos <= Len(features)
  /\ DOMAIN results = ActiveIds(pos)

\* features[1] failed because its handler threw, and features[2] was still
\* executed and reported
C4_Witness ==
  /\ Len(features) = 2 /\ pos = 2
  /\ features[1].parameters = NullParams
  /\ ~results[features[1].id].success
  /\ results[features[2].id].success

\* feature j names the id of feature i as the solid it works on
NamesTarget(j, i) ==
  LET p == features[j].parameters
      id == features[i].id
  IN /\ features[j].type \in {"fillet", "pattern", "boolean"}
     /\ p # NullParams
     /\ \/ Has(p, "targetSolid") /\ p.targetSolid = id
        \/ Has(p, "solid1") /\ p.solid1 = id /\ Has(p, "solid2") /\ p.solid2 = id

\* a later feature that names an earlier, successful feature found its solid
LaterFeatureFindsSolid ==
  \A i, j \in 1..pos :
    (/\ i < j
     /\ features[i].isActive /\ features[j].isActive
     /\ NamesTarget(j, i)
     /\ results[features[i].id].success
     /\ results[features[i].id].solid # NoSolid)
      => results[features[j].id].success

\* the loop has just executed the feature at position pos + 1
ExecutedOne == pos' = pos + 1 /\ features[pos + 1].isActive

\* C5: a step of regenerateFeatures writes the feature's solid into
\* previousSolids under the feature's id exactly when the execution returned
\* success with a solid, and otherwise leaves previousSolids untouched; the
\* write is made before the next feature runs, so a later fillet, pattern or
\* boolean feature naming that id finds the solid.
C5_PublishOnSuccess ==
  /\ [](propagated = NoError /\ LaterFeatureFindsSolid)
  /\ [][ExecutedOne =>
          LET id == features[pos + 1].id
              r == results'[id]
          IN IF r.success /\ r.solid # NoSolid
             THEN previousSolids' = MapSet(previousSolids, id, r.solid)
             ELSE previousSolids' = previousSolids]_vars

\* an extrude published its solid and the fillet after it, naming it, succeeded
C5_Witness ==
  /\ Len(features) = 2 /\ pos = 2
  /\ features[1].type = "extrude" /\ features[2].type = "fillet"
  /\ features[2].parameters.targetSolid = features[1].id
  /\ previousSolids = (1 :> results[1].solid) @@ (2 :> results[2].solid)
  /\ results[2].success
  /\ results[2].solid.name = <<"Filleted", results[1].solid.name>>

\* the solid operation called by the handler of feature f throws
OperationThrows(f) ==
  /\ f.type = "extrude" /\ f.sketch # NoSketch /\ f.parameters # NullParams
  /\ Has(f.parameters, "distance") /\ f.parameters.distance > 0
  /\ extrude(f.sketch, f.parameters.distance, 0).thrown # NoError

\* the feature executeFeature was called on last
LastExecuted ==
  features[CHOOSE i \in 1..Len(features) : features[i].id = executed[Len(executed)]]

IsFeatureResult(r) ==
  /\ DOMAIN r = {"success", "solid", "errors", "warnings"}
  /\ r.success \in BOOLEAN

\* C6: executeFeature never lets an exception escape: every call returns a
\* FeatureResult, and when no handler is registered for the type, the handler
\* threw, or the solid operation it called threw, that result has
\* success = false, a non-empty errors list and no solid.
C6_NeverPropagates ==
  /\ propagated = NoError
  /\ lastHandler # "none" =>
       /\ executed # <<>>
       /\ LastExecuted.id \in DOMAIN results
       /\ LET r == results[LastExecuted.id] IN
            /\ IsFeatureResult(r)
            /\ (lastHandler \in {"noHandler", "threw"} \/ OperationThrows(LastExecuted))
                 => (~r.success /\ r.errors # <<>> /\ r.solid = NoSolid)

\* a feature of an unregistered type was executed, then one whose handler threw
C6_Witness ==
  /\ Len(features) = 2 /\ pos = 2
  /\ features[1].type \notin featureHandlers
  /\ lastHandler = "threw"
  /\ ~results[1].success /\ ~results[2].success
  /\ results[2].errors = <<TypeError>>

(***************************************************************************)
(* validateFeatureDependencies on lists of up to MaxVFeatures features.    *)
(* The feature at position i has id i; its dependencies are at most two    *)
(* distinct ids out of 1..MaxVFeatures, in either order, so a shorter list *)
(* also names ids that are missing.  The diamond A -> {B, C} -> D is added *)
(* as one more input.                                                      *)
(***************************************************************************)
MaxVFeatures == 3    \* longest general list handed to validateFeatureDependencies

DepSeqs ==
  LET ids == 1..MaxVFeatures
  IN {<<>>} \cup {<<a>> : a \in ids} \cup {y \in ids \X ids : y[1] # y[2]}

VFeature(id, deps) == Feature(id, "extrude", TRUE, deps, NoSketch, [distance |-> 1])

DiamondList ==
  <<VFeature(1, <<2, 3>>), VFeature(2, <<4>>), VFeature(3, <<4>>), VFeature(4, <<>>)>>

InitValidate ==
  /\ \/ \E n \in 1..MaxVFeatures : \E deps \in [1..n -> DepSeqs] :
          vfeatures = [i \in 1..n |-> VFeature(i, deps[i])]
     \/ vfeatures = DiamondList
  /\ vresult = NoResult
  /\ ExtrudeIdle /\ RegenIdle /\ SolverIdle /\ EditIdle /\ RestIdle

Validate ==
  /\ vresult = NoResult
  /\ vresult' = validateFeatureDependencies(vfeatures)
  /\ UNCHANGED <<vfeatures, extrudeVars, regenVars, solverVars, editVars, restVars>>

NextValidate == Validate

SpecValidate == InitValidate /\ [][NextValidate]_vars

\* list positions one dependency edge away from a position of S
Succ(S) ==
  {j \in 1..Len(vfeatures) :
     \E i \in S : vfeatures[j].id \in Range(vfeatures[i].dependencies)}

RECURSIVE ReachFrom(_, _)
ReachFrom(S, k) == IF k = 0 THEN S ELSE ReachFrom(S \cup Succ(S), k - 1)

\* the feature at position i lies on a dependency cycle
OnCycle(i) == i \in ReachFrom(Succ({i}), Len(vfeatures))

CycleFeatures == {i \in 1..Len(vfeatures) : OnCycle(i)}

\* pairs of distinct features that depend on each other
MutualPairs ==
  {y \in (1..Len(vfeatures)) \X (1..Len(vfeatures)) :
     /\ y[1] # y[2]
     /\ vfeatures[y[2]].id \in Range(vfeatures[y[1]].dependencies)
     /\ vfeatures[y[1]].id \in Range(vfeatures[y[2]].dependencies)}

\* the names in the circular-dependency messages of the result
CircularNames == {e[2] : e \in {x \in Range(vresult.errors) : x[1] = "circular"}}

\* C7: when A depends on B and B on A, the result is isValid:false and some
\* circular-dependency message names A or B.
C7_NamesMutualPair ==
  vresult # NoResult =>
    \A y \in MutualPairs :
      /\ ~vresult.isValid
      /\ CircularNames \cap {vfeatures[y[1]].name, vfeatures[y[2]].name} # {}

\* C7 (amended): when A depends on B and B on A, the result is isValid:false
\* and some circular-dependency message names a feature that lies on a
\* dependency cycle; it names A or B whenever A and B are the only features
\* on a cycle.
C7_NamesCycleFeature ==
  vresult # NoResult =>
    \A y \in MutualPairs :
      /\ ~vresult.isValid
      /\ CircularNames \cap {vfeatures[i].name : i \in CycleFeatures} # {}
      /\ CycleFeatures = {y[1], y[2]} =>
           CircularNames \cap {vfeatures[y[1]].name, vfeatures[y[2]].name} # {}

\* A and B depend on each other, nothing else is on a cycle, and A is named
C7_Witness ==
  /\ vresult # NoResult
  /\ Len(vfeatures) = 3
  /\ <<1, 2>> \in MutualPairs
  /\ CycleFeatures = {1, 2}
  /\ vfeatures[3].dependencies = <<1>>
  /\ <<"circular", vfeatures[1].name>> \in Range(vresult.errors)

AllDepsExist ==
  \A i \in 1..Len(vfeatures) :
    Range(vfeatures[i].dependencies) \subseteq {vfeatures[j].id : j \in 1..Len(vfeatures)}

\* C8: the result is isValid:true exactly when every dependency id names a
\* feature of the list and no feature lies on a dependency cycle; so one
\* missing id makes it false, and an acyclic list with shared dependencies
\* (the diamond) is valid.
C8_ValidIffClosedAcyclic ==
  vresult # NoResult =>
    (vresult.isValid <=> (AllDepsExist /\ CycleFeatures = {}))

\* the diamond was validated and found valid
C8_Witness ==
  /\ vfeatures = DiamondList
  /\ vresult # NoResult
  /\ vresult.isValid
  /\ vresult.errors = <<>>

(***************************************************************************)
(* The constraint solver of one sketch.  The sketch holds the Line L1 and  *)
(* a second element X: a Line, a Circle, an Arc or a Spline.  The caller   *)
(* adds and removes constraints between them, and calls solve() and        *)
(* detectConflicts().                                                      *)
(***************************************************************************)
MaxConstraints == 6

Element(id, type, points) ==
  [id |-> id, type |-> type, points |-> points, perturbed |-> FALSE]

XShapes ==
  {Element("X", "Line", pts) : pts \in {<<<<10, 0>>, <<10, 10>>>>, <<<<0, 10>>, <<10, 10>>>>}}
    \cup {Element("X", t, <<<<0, 0>>>>) : t \in {"Circle", "Arc", "Spline"}}

\* the constraints a caller builds: [type, first element, second element]
ConstraintChoices ==
  {<<"Parallel", "L1", "X">>, <<"Parallel", "L1", "L1">>}

InitSolver ==
  /\ \E x \in XShapes :
       /\ geometry = [e \in {"L1", "X"} |->
                        IF e = "L1" THEN Element(e, "Line", <<<<0, 0>>, <<10, 0>>>>)
                        ELSE x]
       /\ angle = IF x.type = "Line"
                  THEN angleOf(<<<<0, 0>>, <<10, 0>>>>, x.points) ELSE "none"
  /\ elements = <<>> /\ constraints = <<>>
  /\ lastSolve = NoResult /\ moved = {} /\ passes = 0 /\ lastConflicts = NoResult
  /\ solverTolerance = "1e-6"
  /\ ExtrudeIdle /\ RegenIdle /\ ValidateIdle /\ EditIdle /\ RestIdle

\* Map.set of a key: a new key goes to the end, a known key keeps its place
setKey(keys, k) == IF k \in Range(keys) THEN keys ELSE Append(keys, k)

\* the id the caller gives a new constraint: one above those in use
freshId(cs) == IF cs = <<>> THEN 1 ELSE cs[Len(cs)].id + 1

\* ConstraintSolver.addConstraint
AddConstraint ==
  /\ freshId(constraints) <= MaxConstraints
  /\ \E ch \in ConstraintChoices :
       /\ constraints' = Append(constraints,
                                Constraint(freshId(constraints), ch[1], ch[2], ch[3]))
       /\ elements' = setKey(setKey(elements, ch[2]), ch[3])
  /\ lastSolve' = NoResult /\ lastConflicts' = NoResult /\ passes' = 0
  /\ UNCHANGED <<geometry, angle, moved, solverTolerance, extrudeVars, regenVars, validateVars,
                 editVars, restVars>>

\* ConstraintSolver.removeConstraint of a constraint the solver holds
RemoveConstraint ==
  /\ \E k \in 1..Len(constraints) :
       constraints' = SelectSeq(constraints, LAMBDA c : c.id # constraints[k].id)
  /\ lastSolve' = NoResult /\ lastConflicts' = NoResult /\ passes' = 0
  /\ UNCHANGED <<geometry, angle, elements, moved, solverTolerance, extrudeVars, regenVars,
                 validateVars,
                 editVars, restVars>>

\* ConstraintSolver.clear
Clear ==
  /\ constraints # <<>>
  /\ constraints' = <<>> /\ elements' = <<>>
  /\ lastSolve' = NoResult /\ lastConflicts' = NoResult /\ passes' = 0
  /\ UNCHANGED <<geometry, angle, moved, solverTolerance, extrudeVars, regenVars, validateVars,
                 editVars, restVars>>

\* ConstraintSolver.solve
Solve ==
  /\ \E o \in solve(constraints, elements, geometry, angle) :
       /\ constraints' = o.constraints
       /\ geometry' = o.geometry
       /\ angle' = o.angle
       /\ moved' = o.moved
       /\ passes' = o.passes
       /\ lastSolve' = o.result
  /\ lastConflicts' = NoResult
  /\ UNCHANGED <<elements, solverTolerance, extrudeVars, regenVars, validateVars,
                 editVars, restVars>>

\* ConstraintSolver.detectConflicts
DetectConflicts ==
  /\ lastConflicts' = [conflicts |-> detectConflicts(constraints, elements, geometry)]
  /\ lastSolve' = NoResult /\ passes' = 0
  /\ UNCHANGED <<geometry, angle, elements, constraints, moved, solverTolerance,
                 extrudeVars, regenVars, validateVars,
                 editVars, restVars>>

NextSolver ==
  \/ AddConstraint
  \/ RemoveConstraint
  \/ Clear
  \/ Solve
  \/ DetectConflicts

SpecSolver == InitSolver /\ [][NextSolver]_vars

\* ids of the constraints that reference element e, in the order they were added
ConstraintsOn(e) ==
  Let(SelectSeq(constraints, LAMBDA c : e \in Range(c.elements)), LAMBDA l :
    Eager([k \in 1..Len(l) |-> l[k].id]))

Budget(e) == getMaxConstraintsForElement(geometry[e])

OverBudget(e) == Len(ConstraintsOn(e)) > Budget(e)

\* C9: when solve() was called while some element was referenced by more
\* constraints than its budget (Line 4, Circle 3, Arc 5, other 2), it returned
\* success=false, iterations=0 and a non-empty conflictedConstraints list, and
\* changed no control point of any element.
C9_OverBudgetSkipsSolving ==
  (lastSolve # NoResult /\ \E e \in DOMAIN geometry : OverBudget(e)) =>
     /\ ~lastSolve.success
     /\ lastSolve.iterations = 0
     /\ lastSolve.conflictedConstraints # <<>>
     /\ moved = {}

\* solve() has returned with the Line L1 over its budget of 4 while L1 and
\* the Line X were not parallel, as a Parallel constraint between them asks
C9_Witness ==
  /\ lastSolve # NoResult
  /\ OverBudget("L1")
  /\ \E k \in 1..Len(constraints) :
       /\ constraints[k].elements = <<"L1", "X">>
       /\ calculateError(constraints[k], geometry, angle) = "positive"
       /\ constraints[k].status = "violated"
  /\ ~lastSolve.success
  /\ moved = {}

\* C10: when detectConflicts() was called while k > 4 constraints referenced
\* one Line and no other element was over its budget, it returned exactly the
\* k - 4 constraints added to that Line after the first four.
C10_ExactExcess ==
  \A e \in DOMAIN geometry :
    (/\ lastConflicts # NoResult
     /\ geometry[e].type = "Line"
     /\ OverBudget(e)
     /\ \A f \in DOMAIN geometry \ {e} : ~OverBudget(f))
    => lastConflicts.conflicts =
         SubSeq(ConstraintsOn(e), 5, Len(ConstraintsOn(e)))

Converged == ~aboveTolerance(calculateTotalError(constraints, geometry, angle))

\* C12: a solve() called on a converged constraint set applies no correction
\* pass, leaves every element's control points as they were and reports an
\* aggregate error that is still below tolerance.
C12_SolveIsIdempotent ==
  [][(Converged /\ lastSolve' # NoResult) =>
        /\ passes' = 0
        /\ moved' = {}
        /\ geometry' = geometry
        /\ angle' = angle
        /\ lastSolve'.finalError = calculateTotalError(constraints, geometry, angle)
        /\ lastSolve'.finalError # "positive"]_vars

\* solve() has returned on a set that an earlier solve() had brought to
\* convergence by moving L1 and X: it made no pass and moved nothing
C12_Witness ==
  /\ lastSolve # NoResult
  /\ lastSolve.success
  /\ geometry["L1"].perturbed
  /\ \E k \in 1..Len(constraints) :
       /\ constraints[k].elements = <<"L1", "X">>
       /\ constraints[k].status = "satisfied"
  /\ passes = 0
  /\ moved = {}

(***************************************************************************)
(* The editing operations of SolidEngine, one call per behaviour, on a     *)
(* prism that extrude built.  The tool of a Boolean operation is either a  *)
(* second prism with ids of its own or a clone of the source, which has    *)
(* the ids of the source.  An operation writes only to objects it created  *)
(* itself, so the solids handed to it are what they were when it returns.  *)
(***************************************************************************)
MaxCount == 3        \* largest instance count of a pattern
MaxSpacing == 2      \* pattern spacings are drawn from 0..MaxSpacing

SquareSketch == LoopSketch(<<<<0, 0>>, <<1, 0>>, <<1, 1>>, <<0, 1>>>>)

EditSources == {extrude(sk, 1, 0).solid : sk \in {TriSketch, SquareSketch}}

EditTools(sd) == {extrude(TriSketch, 1, sd.id).solid, cloneSolid(sd, sd.id)}

\* the last id or ref generated before the editing operation is called
EditBase ==
  IF tool.id = source.id THEN source.id + cloneRefs(source.brep) ELSE tool.id

AxisDirections == {<<1, 0, 0>>, <<0, 0, 2>>}

Op(name, args) == [op |-> name, args |-> args]

InitEdit ==
  /\ source \in EditSources
  /\ tool \in EditTools(source)
  /\ editOp = NoResult
  /\ edited = NoSolid
  /\ ExtrudeIdle /\ RegenIdle /\ ValidateIdle /\ SolverIdle /\ RestIdle

EditFrame ==
  UNCHANGED <<source, tool, extrudeVars, regenVars, validateVars, solverVars, restVars>>

\* fillet, chamfer, shell or draft of the source
EditStub ==
  /\ editOp = NoResult
  /\ \E name \in {"fillet", "chamfer", "shell", "draft"} :
       /\ editOp' = Op(name, <<>>)
       /\ edited' = (CASE name = "fillet" -> fillet(source, EditBase)
                       [] name = "chamfer" -> chamfer(source, EditBase)
                       [] name = "shell" -> shell(source, EditBase)
                       [] OTHER -> draft(source, EditBase)).solid
  /\ EditFrame

\* union, subtract or intersect of the source and the tool
EditBoolean ==
  /\ editOp = NoResult
  /\ \E name \in {"union", "subtract", "intersect"} :
       /\ editOp' = Op(name, <<>>)
       /\ edited' = (CASE name = "union" -> union(source, tool, EditBase)
                       [] name = "subtract" -> subtract(source, tool, EditBase)
                       [] OTHER -> intersect(source, tool, EditBase)).solid
  /\ EditFrame

EditLinearPattern ==
  /\ editOp = NoResult
  /\ \E direction \in AxisDirections, spacing \in 0..MaxSpacing, count \in 0..MaxCount :
       /\ editOp' = Op("linearPattern",
                       [direction |-> direction, spacing |-> spacing, count |-> count])
       /\ edited' = linearPattern(source, normalize(direction), spacing, count,
                                  EditBase).solid
  /\ EditFrame

\* circularPattern about an axis through the origin; angle is
\* 90 * quarterStep * count degrees
EditCircularPattern ==
  /\ editOp = NoResult
  /\ \E axisDirection \in AxisDirections, quarterStep \in 0..3, count \in 0..MaxCount :
       /\ editOp' = Op("circularPattern",
                       [axisDirection |-> axisDirection, quarterStep |-> quarterStep,
                        count |-> count])
       /\ edited' = circularPattern(source, <<0, 0, 0>>, axisDirection, quarterStep,
                                    count, EditBase).solid
  /\ EditFrame

EditMirror ==
  /\ editOp = NoResult
  /\ \E planePoint \in {<<0, 0, 0>>, <<2, 0, 0>>}, planeNormal \in AxisDirections :
       /\ editOp' = Op("mirror", [planePoint |-> planePoint, planeNormal |-> planeNormal])
       /\ edited' = mirror(source, planePoint, planeNormal, EditBase).solid
  /\ EditFrame

NextEdit ==
  \/ EditStub
  \/ EditBoolean
  \/ EditLinearPattern
  \/ EditCircularPattern
  \/ EditMirror

SpecEdit == InitEdit /\ [][NextEdit]_vars

Called(names) == editOp # NoResult /\ editOp.op \in names

Count(m) == Cardinality(DOMAIN m)

\* the instances of the pattern called are placed at distinct positions
DistinctPositions ==
  IF editOp.op = "linearPattern" THEN editOp.args.spacing > 0
  ELSE \A i, j \in 0..(editOp.args.count - 1) :
         i # j => (editOp.args.quarterStep * i) % 4 # (editOp.args.quarterStep * j) % 4

\* C13: the B-Rep returned by linearPattern / circularPattern with count n and
\* instances at distinct positions holds n times the faces, n times the
\* vertices and n times the edges of the source solid.
C13_AllInstancesKept ==
  (Called({"linearPattern", "circularPattern"}) /\ DistinctPositions) =>
     /\ Count(edited.brep.faces) = editOp.args.count * Count(source.brep.faces)
     /\ Count(edited.brep.vertices) = editOp.args.count * Count(source.brep.vertices)
     /\ Count(edited.brep.edges) = editOp.args.count * Count(source.brep.edges)

\* C14: union(solid1, solid2) returns a solid whose vertex, edge and face
\* sets are exactly those of solid1: no entity of solid2 is added.
C14_UnionKeepsFirstOnly ==
  Called({"union"}) =>
     /\ DOMAIN edited.brep.vertices = DOMAIN source.brep.vertices
     /\ DOMAIN edited.brep.edges = DOMAIN source.brep.edges
     /\ DOMAIN edited.brep.faces = DOMAIN source.brep.faces

\* the Vertex instances a B-Rep reaches: those of its vertex map, of its
\* edges and of the edges of its face loops
EdgeRefs(es) == {e.startVertex.ref : e \in es} \cup {e.endVertex.ref : e \in es}

VertexRefs(b) ==
  {b.vertices[k].ref : k \in DOMAIN b.vertices}
    \cup EdgeRefs({b.edges[k] : k \in DOMAIN b.edges})
    \cup UNION {EdgeRefs(Range(getEdges(b.faces[k]))) : k \in DOMAIN b.faces}

\* an edge as ids and positions: [id, start id, start point, end id, end point]
EdgeShape(e) ==
  <<e.id, e.startVertex.id, e.startVertex.point, e.endVertex.id, e.endVertex.point>>

LoopShape(loop) == [k \in 1..Len(loop) |-> EdgeShape(loop[k])]

\* the B-Rep without the identity of its Vertex instances
BRepShape(b) ==
  [vertices |-> [k \in DOMAIN b.vertices |-> <<b.vertices[k].id, b.vertices[k].point>>],
   edges |-> [k \in DOMAIN b.edges |-> EdgeShape(b.edges[k])],
   faces |-> [k \in DOMAIN b.faces |->
                <<b.faces[k].id, LoopShape(b.faces[k].outerLoop),
                  [j \in 1..Len(b.faces[k].innerLoops) |->
                     LoopShape(b.faces[k].innerLoops[j])]>>]]

StubNames == {"fillet", "chamfer", "shell", "draft", "subtract", "intersect"}

C16_RejectsNonPositiveAngle ==
  (/\ Called({"circularPattern"})
   /\ editOp.args.count >= 1
   /\ editOp.args.quarterStep * editOp.args.count <= 0)
  => edited = NoSolid

(***************************************************************************)
(* ConstraintManager over the same sketch: it hands every constraint to    *)
(* its ConstraintSolver and, autoSolve being on, solves after each         *)
(* addition and removal.                                                   *)
(***************************************************************************)
MaxManaged == 3      \* largest constraint id a ConstraintManager hands out

ManagerChoices == ConstraintChoices \cup {<<"Perpendicular", "L1", "X">>}

\* the outcome o of solver.solve() becomes the state
SolveTo(o) ==
  /\ constraints' = o.constraints
  /\ geometry' = o.geometry
  /\ angle' = o.angle
  /\ moved' = o.moved
  /\ passes' = o.passes
  /\ lastSolve' = o.result
  /\ lastConflicts' = NoResult

ManagerFrame ==
  UNCHANGED <<solverTolerance, extrudeVars, regenVars, validateVars, editVars, restVars>>

\* ConstraintManager.addConstraint: the elements are in the sketch
ManagerAddConstraint ==
  /\ freshId(constraints) <= MaxManaged
  /\ \E ch \in ManagerChoices :
       /\ {ch[2], ch[3]} \subseteq DOMAIN geometry
       /\ \E els \in {setKey(setKey(elements, ch[2]), ch[3])} :
            /\ elements' = els
            /\ \E o \in solve(Append(constraints,
                                     Constraint(freshId(constraints), ch[1], ch[2], ch[3])),
                              els, geometry, angle) : SolveTo(o)
  /\ ManagerFrame

\* ConstraintManager.removeConstraint of a constraint the manager holds
ManagerRemoveConstraint ==
  /\ \E k \in 1..Len(constraints) :
       \E o \in solve(SelectSeq(constraints, LAMBDA c : c.id # constraints[k].id),
                      elements, geometry, angle) : SolveTo(o)
  /\ UNCHANGED elements
  /\ ManagerFrame

\* ConstraintManager.clearConstraints
ManagerClearConstraints ==
  /\ constraints # <<>>
  /\ constraints' = <<>> /\ elements' = <<>>
  /\ lastSolve' = NoResult /\ lastConflicts' = NoResult /\ passes' = 0
  /\ UNCHANGED <<geometry, angle, moved>>
  /\ ManagerFrame

\* ConstraintManager.solve
ManagerSolve ==
  /\ \E o \in solve(constraints, elements, geometry, angle) : SolveTo(o)
  /\ UNCHANGED elements
  /\ ManagerFrame

NextManager ==
  \/ ManagerAddConstraint
  \/ ManagerRemoveConstraint
  \/ ManagerClearConstraints
  \/ ManagerSolve

\* new ConstraintManager(sketch, solverConfig): the solver takes the default
\* tolerance or the one of solverConfig
InitManager ==
  /\ \E x \in XShapes :
       /\ geometry = [e \in {"L1", "X"} |->
                        IF e = "L1" THEN Element(e, "Line", <<<<0, 0>>, <<10, 0>>>>)
                        ELSE x]
       /\ angle = IF x.type = "Line"
                  THEN angleOf(<<<<0, 0>>, <<10, 0>>>>, x.points) ELSE "none"
  /\ elements = <<>> /\ constraints = <<>>
  /\ lastSolve = NoResult /\ moved = {} /\ passes = 0 /\ lastConflicts = NoResult
  /\ solverTolerance \in {"1e-6", "1e-3"}
  /\ ExtrudeIdle /\ RegenIdle /\ ValidateIdle /\ EditIdle /\ RestIdle

SpecManager == InitManager /\ [][NextManager]_vars

\* L1 is (0,0)-(10,0) and X is (10,0)-(10,10), both as they were created
LinesAsCreated ==
  /\ geometry["X"] = Element("X", "Line", <<<<10, 0>>, <<10, 10>>>>)
  /\ geometry["L1"] = Element("L1", "Line", <<<<0, 0>>, <<10, 0>>>>)

\* C17: with the lines (0,0)-(10,0) and (10,0)-(10,10) as created and no
\* constraint yet, adding a Perpendicular constraint between them leaves the
\* constraint with error 0 and status Satisfied; the solve it triggers returns
\* success with 0 iterations and changes no endpoint.
C17_PerpendicularAlreadyHolds ==
  [][(/\ LinesAsCreated
      /\ constraints = <<>>
      /\ Len(constraints') = 1
      /\ constraints'[1].type = "Perpendicular")
     => /\ calculateError(constraints'[1], geometry', angle') = "zero"
        /\ constraints'[1].status = "satisfied"
        /\ lastSolve' # NoResult
        /\ lastSolve'.success
        /\ lastSolve'.iterations = 0
        /\ passes' = 0
        /\ moved' = {}
        /\ geometry' = geometry]_vars

\* the Perpendicular constraint has been added between the lines as created
C17_Witness ==
  /\ LinesAsCreated
  /\ Len(constraints) = 1
  /\ constraints[1].type = "Perpendicular"
  /\ constraints[1].elements = <<"L1", "X">>
  /\ constraints[1].status = "satisfied"
  /\ lastSolve # NoResult
  /\ lastSolve.success
  /\ lastSolve.iterations = 0

(***************************************************************************)
(* Mass properties of a B-Rep: Face.computeNormal, Face.computeArea,       *)
(* BoundaryRepresentation.computeVolume and Solid.updateProperties.        *)
(* A number that need not be whole is an exact fraction <<num, den>> with  *)
(* den > 0.  Face.area is a field that is undefined until computeArea has  *)
(* run on the face: the areas of the faces of a B-Rep are a map from face  *)
(* id to a fraction or Undefined.                                          *)
(***************************************************************************)
Undefined == "undefined"

Abs(x) == IF x < 0 THEN -x ELSE x

RECURSIVE GCD(_, _)
GCD(a, b) == IF b = 0 THEN a ELSE GCD(b, a % b)

\* the fraction n / d in lowest terms
Frac(n, d) ==
  Let(GCD(Abs(n), d), LAMBDA g : <<n \div g, d \div g>>)

FracAdd(a, b) == Frac(a[1] * b[2] + b[1] * a[2], a[2] * b[2])

FracAbs(a) == <<Abs(a[1]), a[2]>>

\* Vector.cross
Cross(v, w) ==
  << v[2] * w[3] - v[3] * w[2],
     v[3] * w[1] - v[1] * w[3],
     v[1] * w[2] - v[2] * w[1] >>

\* Vector.length, for a vector whose length is a whole number
length(v) == CHOOSE r \in 0..Dot(v, v) : r * r = Dot(v, v)

\* Face.computeNormal: (p2 - p1) x (p3 - p1), normalised when it is used
\* (Vector.normalize maps the zero vector to itself); undefined for a loop
\* of fewer than three edges.  The source calls cross() and normalize() on
\* the Point that Point.subtract returns; Point.ts declares neither, and
\* they are read here as Vector.cross and Vector.normalize on the same
\* three coordinates.
computeNormal(loop) ==
  IF Len(loop) < 3 THEN Undefined
  ELSE Cross(PointSub(loop[1].endVertex.point, loop[1].startVertex.point),
             PointSub(loop[2].endVertex.point, loop[1].startVertex.point))

RECURSIVE Shoelace(_, _)
Shoelace(ps, i) ==
  IF i > Len(ps) THEN 0
  ELSE ps[i][1] * ps[(i % Len(ps)) + 1][2] - ps[(i % Len(ps)) + 1][1] * ps[i][2]
       + Shoelace(ps, i + 1)

\* Face.computeArea: the shoelace formula over the x and y of the start
\* vertex of each edge of the outer loop; 0 for fewer than three edges
computeArea(f) ==
  IF Len(f.outerLoop) < 3 THEN Frac(0, 1)
  ELSE Frac(Abs(Shoelace([i \in 1..Len(f.outerLoop) |->
                            f.outerLoop[i].startVertex.point], 1)), 2)

\* Face.getVertices: start and end vertex of every edge, the first vertex
\* seen under each id
getVertices(f) ==
  Let(EdgeVertices(getEdges(f)), LAMBDA vs :
    Let({i \in 1..Len(vs) : \A j \in 1..(i - 1) : vs[j].id # vs[i].id},
        LAMBDA firsts : [i \in firsts |-> vs[i]]))

RECURSIVE SumPoints(_, _)
SumPoints(vs, I) ==
  IF I = {} THEN <<0, 0, 0>>
  ELSE LET i == CHOOSE x \in I : TRUE
       IN PointAdd(vs[i].point, SumPoints(vs, I \ {i}))

\* BoundaryRepresentation.getFaceCentroid: the sum of the vertex points and
\* the number of vertices it is divided by
getFaceCentroid(f) ==
  Let(getVertices(f), LAMBDA vs :
    [sum |-> SumPoints(vs, DOMAIN vs), count |-> Cardinality(DOMAIN vs)])

\* centroid.dot(face.normal) * face.area / 3 for a face with a normal and
\* an area.  A face of area 0 and a face whose normal is the zero vector
\* add 0.
volumeTerm(f, area) ==
  Let(computeNormal(f.outerLoop), LAMBDA c :
    IF area[1] = 0 \/ c = <<0, 0, 0>> THEN Frac(0, 1)
    ELSE Let(getFaceCentroid(f), LAMBDA centroid :
           Frac(Dot(centroid.sum, c) * area[1],
                centroid.count * length(c) * area[2] * 3)))

RECURSIVE SumTerms(_, _, _)
SumTerms(b, areas, F) ==
  IF F = {} THEN Frac(0, 1)
  ELSE LET f == CHOOSE x \in F : TRUE
       IN FracAdd(volumeTerm(b.faces[f], areas[f]), SumTerms(b, areas, F \ {f}))

\* BoundaryRepresentation.computeVolume: only the faces that have a normal
\* and an area count
computeVolume(b, areas) ==
  FracAbs(SumTerms(b, areas,
                   {f \in DOMAIN b.faces :
                      /\ computeNormal(b.faces[f].outerLoop) # Undefined
                      /\ areas[f] # Undefined}))

\* BoundaryRepresentation.computeSurfaceArea: computeArea() on every face,
\* which sets the area of each
computeSurfaceArea(b) == Eager([f \in DOMAIN b.faces |-> computeArea(b.faces[f])])

\* Solid.updateProperties as the Solid constructor runs it on a B-Rep whose
\* faces are new: the volume is computed first, the areas are set after it
updateProperties(b) ==
  [volume |-> computeVolume(b, [f \in DOMAIN b.faces |-> Undefined]),
   areas |-> computeSurfaceArea(b)]

\* |a - w| <= 1e-6 for a fraction a and a whole number w
WithinTolerance(a, w) == Abs(a[1] - w * a[2]) * 1000000 <= a[2]

\* the unit square has been extruded by 1 into a Solid
UnitCubeExtruded ==
  /\ solid # NoSolid
  /\ sketch = SquareSketch
  /\ distance = 1

\* C18: extruding the unit-square sketch on the XY plane by distance 1
\* returns a Solid for which computeVolume() on its B-Rep is 1 within
\* tolerance.
C18_UnitCubeVolume ==
  UnitCubeExtruded =>
    WithinTolerance(computeVolume(solid.brep, updateProperties(solid.brep).areas), 1)

\* C19: in the B-Rep extrude returns for a closed loop of n >= 3 Lines,
\* every face (bottom, reversed top, each side face) has an outer loop that
\* is a closed chain, so validate() reports no invalid face.
C19_FacesAreClosedChains ==
  ExtrudedLoop =>
    /\ \A f \in DOMAIN solid.brep.faces : LoopClosed(solid.brep.faces[f].outerLoop)
    /\ \A err \in validate(solid.brep).errors : err[1] # "Invalid face"

\* the outer loop of face f of the result is the outer loop of face f of the
\* source with every start and end vertex moved by T
LoopMovedBy(f, T(_)) ==
  \A k \in 1..Len(edited.brep.faces[f].outerLoop) :
    /\ edited.brep.faces[f].outerLoop[k].startVertex.point
         = T(source.brep.faces[f].outerLoop[k].startVertex.point)
    /\ edited.brep.faces[f].outerLoop[k].endVertex.point
         = T(source.brep.faces[f].outerLoop[k].endVertex.point)

\* a closed loop of the source is a closed loop of the result
StaysClosed(f) ==
  LoopClosed(source.brep.faces[f].outerLoop)
    => LoopClosed(edited.brep.faces[f].outerLoop)

\* C20: in the result of mirror, and in every instance of a linearPattern,
\* every vertex referenced by an edge of a face has been moved by the
\* reflection / the offset of the instance, and a face that was a closed
\* loop in the source is a closed loop in the result.
C20_EveryFaceVertexMoved ==
  /\ Called({"mirror"}) =>
       \A f \in DOMAIN edited.brep.faces :
         /\ LoopMovedBy(f, LAMBDA p : mirrorPointAcrossPlane(p, editOp.args.planePoint,
                                                             editOp.args.planeNormal))
         /\ StaysClosed(f)
  /\ Called({"linearPattern"}) =>
       \A f \in DOMAIN edited.brep.faces :
         /\ \E i \in 0..(editOp.args.count - 1) :
              LoopMovedBy(f, LAMBDA p :
                PointAdd(p, PointScale(normalize(editOp.args.direction),
                                       editOp.args.spacing * i)))
         /\ StaysClosed(f)

\* the Vertex instance at each end of edge e is the one the vertex map of b
\* holds under its id
UsesMapVertices(b, e) ==
  /\ e.startVertex.id \in DOMAIN b.vertices
  /\ e.endVertex.id \in DOMAIN b.vertices
  /\ e.startVertex.ref = b.vertices[e.startVertex.id].ref
  /\ e.endVertex.ref = b.vertices[e.endVertex.id].ref

\* every edge of the edge map and of every face loop of b ends on the Vertex
\* instances of the vertex map of b
SharesVertices(b) ==
  /\ \A k \in DOMAIN b.edges : UsesMapVertices(b, b.edges[k])
  /\ \A f \in DOMAIN b.faces :
       \A e \in Range(getEdges(b.faces[f])) : UsesMapVertices(b, e)

\* C21: BoundaryRepresentation.clone() (and hence Solid.clone()) preserves
\* vertex sharing: in the clone, the start and end vertex of every edge of
\* the edge map and of every face loop is the Vertex instance the clone's
\* vertex map holds under that id.
C21_ClonePreservesSharing ==
  (Called(StubNames) /\ SharesVertices(source.brep)) => SharesVertices(edited.brep)

(***************************************************************************)
(* A BoundaryRepresentation filled by its callers, one addVertex, addEdge  *)
(* or addFace call at a time.  The objects handed to it: three Vertex      *)
(* instances, the third a clone of the first (same id), edges under two    *)
(* ids between them, and faces under one id with an outer loop of one or   *)
(* two edges and at most one inner loop.                                   *)
(***************************************************************************)
BVertex(r) ==
  CASE r = 1 -> Vertex(1, <<0, 0, 0>>)
    [] r = 2 -> Vertex(2, <<1, 0, 0>>)
    [] OTHER -> cloneVertex(Vertex(1, <<0, 0, 0>>), 3)

BVertices == {BVertex(r) : r \in {1, 2, 3}}

BEdges ==
  {Edge(id, BVertex(ends[1]), BVertex(ends[2])) :
     id \in {11, 12}, ends \in {<<1, 2>>, <<2, 3>>, <<3, 1>>}}

\* face.addInnerLoop(loop) on a new Face
addInnerLoop(f, loop) == [f EXCEPT !.innerLoops = Append(@, loop)]

\* outer loops of two edges with different ids
BLoops == {<<p[1], p[2]>> : p \in {q \in BEdges \X BEdges : q[1].id # q[2].id}}

BFaces ==
  {Face(21, <<e>>) : e \in BEdges}
    \cup {Face(21, loop) : loop \in BLoops}
    \cup {addInnerLoop(Face(21, loop), <<e>>) : loop \in BLoops, e \in BEdges}

InitBRep ==
  /\ builtBrep = EmptyBRep
  /\ ExtrudeIdle /\ RegenIdle /\ ValidateIdle /\ SolverIdle /\ EditIdle /\ RevolveIdle
  /\ ToolsIdle

BRepFrame ==
  UNCHANGED <<extrudeVars, regenVars, validateVars, solverVars, editVars, revolveVars,
              toolVars>>

AddVertex ==
  /\ \E v \in BVertices : builtBrep' = addVertex(builtBrep, v)
  /\ BRepFrame

AddEdge ==
  /\ \E e \in BEdges : builtBrep' = addEdge(builtBrep, e)
  /\ BRepFrame

AddFace ==
  /\ \E f \in BFaces : builtBrep' = addFace(builtBrep, f)
  /\ BRepFrame

NextBRep ==
  \/ AddVertex
  \/ AddEdge
  \/ AddFace

SpecBRep == InitBRep /\ [][NextBRep]_vars

\* C22: after any sequence of addVertex, addEdge and addFace calls, every
\* edge of every face (outer and inner loops) is in the edge map under its
\* id, and both end vertices of every edge of the edge map are in the vertex
\* map under their ids.
C22_SubEntitiesPresent ==
  /\ \A f \in DOMAIN builtBrep.faces :
       \A e \in Range(getEdges(builtBrep.faces[f])) : e.id \in DOMAIN builtBrep.edges
  /\ \A k \in DOMAIN builtBrep.edges :
       /\ builtBrep.edges[k].startVertex.id \in DOMAIN builtBrep.vertices
       /\ builtBrep.edges[k].endVertex.id \in DOMAIN builtBrep.vertices

\* a face with an inner loop has been added: its three edges lie under two
\* ids in the edge map, their vertices under two ids in the vertex map
C22_Witness ==
  /\ \E f \in DOMAIN builtBrep.faces : Len(builtBrep.faces[f].innerLoops) = 1
  /\ Count(builtBrep.edges) = 2
  /\ Count(builtBrep.vertices) = 2

(***************************************************************************)
(* Solid construction: SolidEngine.revolve.  A profile point turned about  *)
(* the axis by step/steps of the angle is kept as [of, step, steps]: two   *)
(* vertices of one step lie at the same place exactly when their profile   *)
(* points do, which is all that Face.isValid compares in a revolved B-Rep  *)
(* (every other comparison is of a Vertex instance with itself).           *)
(***************************************************************************)
MaxEighths == 9      \* revolve angles are 0, 45, ..., 45 * MaxEighths degrees

\* revolvePointAroundAxis(worldPoint, axisPoint, axisDirection, angleRad * step / steps)
revolvedAt(point, step, steps) == [of |-> point, step |-> step, steps |-> steps]

\* Math.max(8, Math.ceil(angle / 15))
stepsFor(ang) == IF (ang + 14) \div 15 > 8 THEN (ang + 14) \div 15 ELSE 8

\* SolidEngine.revolve(sketch, axisPoint, axisDirection, angle); objects get
\* the ids base+1, base+2, ... in the order the code constructs them
revolve(sk, ang, base) ==
  IF ang <= 0 \/ ang > 360
  THEN [thrown |-> "Revolve angle must be between 0 and 360 degrees", solid |-> NoSolid]
  ELSE IF sk.elements = <<>>
  THEN [thrown |-> "Cannot revolve empty sketch", solid |-> NoSolid]
  ELSE
    LET steps == stepsFor(ang)
        profilePoints == extractSketchVertices(sk.elements)
        m == Len(profilePoints)
        \* revolutionVertices[step + 1][j]
        revolutionVertices == [s \in 1..(steps + 1) |-> [j \in 1..m |->
            Vertex(base + (s - 1) * m + j,
                   revolvedAt(sketchToWorld(sk, profilePoints[j].point), s - 1, steps))]]
        b1 == addVertexAll(EmptyBRep, Flatten(revolutionVertices))
        q0 == base + (steps + 1) * m
        \* the quad of step s - 1 and index i - 1: four edges, then the face
        quad(s, i) ==
          LET v1 == revolutionVertices[s][i]
              v2 == revolutionVertices[s][i + 1]
              v3 == revolutionVertices[s + 1][i + 1]
              v4 == revolutionVertices[s + 1][i]
              k == q0 + 5 * ((s - 1) * (m - 1) + (i - 1))
          IN Face(k + 5, << Edge(k + 1, v1, v2), Edge(k + 2, v2, v3),
                            Edge(k + 3, v3, v4), Edge(k + 4, v4, v1) >>)
        quads == [n \in 1..(steps * (m - 1)) |->
                    quad(((n - 1) \div (m - 1)) + 1, ((n - 1) % (m - 1)) + 1)]
        c0 == q0 + 5 * steps * (m - 1)
        startFace == Face(c0 + m,
            [i \in 1..(m - 1) |->
               Edge(c0 + i, revolutionVertices[1][i], revolutionVertices[1][i + 1])])
        endFace == Face(c0 + 2 * m,
            [i \in 1..(m - 1) |->
               Edge(c0 + m + i, revolutionVertices[steps + 1][i + 1],
                    revolutionVertices[steps + 1][i])])
        caps == IF ang < 360 THEN <<startFace, endFace>> ELSE <<>>
        b2 == addFaceAll(b1, quads \o caps)
    IN [thrown |-> NoError,
        solid |-> Solid(c0 + 2 * m + 1, <<"Revolved", sk.name>>, b2)]

\* an open profile: element i joins point i to point i + 1
OpenSketch(P) ==
  [name |-> "S", plane |-> PlaneXY,
   elements |-> [i \in 1..(Len(P) - 1) |-> Line(i, P[i], P[i + 1])]]

\* profiles handed to revolve: none, one Line, a closed triangle of Lines
RevolveSketches ==
  {EmptySketch} \cup {OpenSketch(P) : P \in Polygons(2)}
                \cup {LoopSketch(P) : P \in Polygons(3)}

InitRevolve ==
  /\ revolveArgs \in [sketch : RevolveSketches, angle : {45 * k : k \in 0..MaxEighths}]
  /\ revolved = NoResult
  /\ ExtrudeIdle /\ RegenIdle /\ ValidateIdle /\ SolverIdle /\ EditIdle /\ BRepIdle
  /\ ToolsIdle

\* one call revolve(sketch, axisPoint, axisDirection, angle) on a fresh engine
Revolve ==
  /\ revolved = NoResult
  /\ revolved' = revolve(revolveArgs.sketch, revolveArgs.angle, 0)
  /\ UNCHANGED <<revolveArgs, extrudeVars, regenVars, validateVars, solverVars,
                 editVars, brepVars, toolVars>>

NextRevolve == Revolve

SpecRevolve == InitRevolve /\ [][NextRevolve]_vars

\* revolve has returned a Solid
Revolved == revolved # NoResult /\ revolved.solid # NoSolid

\* the faces of the result whose outer loop is not made of four edges: the
\* caps (a quad has four edges; a cap of a profile of m points has m - 1)
CapFaces ==
  {f \in DOMAIN revolved.solid.brep.faces :
     revolved.solid.brep.faces[f].id >
       5 * stepsFor(revolveArgs.angle)
         * (Len(extractSketchVertices(revolveArgs.sketch.elements)) - 1)
       + (stepsFor(revolveArgs.angle) + 1)
           * Len(extractSketchVertices(revolveArgs.sketch.elements))}

\* C23: in the B-Rep revolve returns for 0 < angle < 360 the two cap faces
\* are present, and every face of the result has an outer loop of at least
\* three edges that is a closed chain, so validate() reports no invalid
\* face; for angle = 360 no cap face is added.
C23_RevolveFacesValid ==
  Revolved =>
    /\ revolveArgs.angle < 360 => Cardinality(CapFaces) = 2
    /\ revolveArgs.angle = 360 => CapFaces = {}
    /\ \A f \in DOMAIN revolved.solid.brep.faces :
         LoopClosed(revolved.solid.brep.faces[f].outerLoop)
    /\ \A err \in validate(revolved.solid.brep).errors : err[1] # "Invalid face"

\* C24 as stated: when solve() has returned, every constraint has status
\* Satisfied if and only if its error is below the tolerance the solver is
\* configured with, and Violated otherwise.
C24_StatusBySolverTolerance ==
  lastSolve # NoResult =>
    \A k \in 1..Len(constraints) :
      /\ constraints[k].status \in {"satisfied", "violated"}
      /\ constraints[k].status = "satisfied"
           <=> belowTolerance(calculateError(constraints[k], geometry, angle))

\* C24: when solve() has returned, every constraint has status Satisfied if
\* and only if its current error is below the tolerance of the constraint
\* (1e-6, whatever tolerance the solver is configured with) and Violated
\* otherwise: no constraint keeps a status computed before the solve changed
\* the geometry.
C24_StatusByConstraintTolerance ==
  lastSolve # NoResult =>
    \A k \in 1..Len(constraints) :
      /\ constraints[k].status \in {"satisfied", "violated"}
      /\ constraints[k].status = "satisfied"
           <=> calculateError(constraints[k], geometry, angle) = "zero"

\* a solve() that moved L1 and X has returned with a Parallel constraint that
\* it brought from Violated to Satisfied
C24_Witness ==
  /\ lastSolve # NoResult
  /\ passes > 0
  /\ moved = {"L1", "X"}
  /\ angle = "parallel"
  /\ \E k \in 1..Len(constraints) :
       /\ constraints[k].type = "Parallel"
       /\ constraints[k].elements = <<"L1", "X">>
       /\ constraints[k].status = "satisfied"

\* C25: every circular-dependency error of validateFeatureDependencies names
\* a feature that lies on a dependency cycle; a feature on no cycle is never
\* named in one.
C25_OnlyCycleFeaturesNamed ==
  vresult # NoResult =>
    CircularNames \subseteq {vfeatures[i].name : i \in CycleFeatures}

\* C26: whenever solve() has returned success=true, its conflictedConstraints
\* list is empty and every constraint of the solver has status Satisfied.
C26_SuccessMeansAllSatisfied ==
  (lastSolve # NoResult /\ lastSolve.success) =>
    /\ lastSolve.conflictedConstraints = <<>>
    /\ \A k \in 1..Len(constraints) : constraints[k].status = "satisfied"

\* C27: detectConflicts() never returns the same constraint more than once,
\* even when both elements of a constraint are over their budgets.
C27_NoConflictTwice ==
  lastConflicts # NoResult =>
    \A i, j \in 1..Len(lastConflicts.conflicts) :
      i # j => lastConflicts.conflicts[i] # lastConflicts.conflicts[j]

(***************************************************************************)
(* Regeneration over a context that already holds solids.                  *)
(***************************************************************************)
\* regenerateFeatures has returned: the loop went through the whole list
RegenReturned == pos = Len(features) /\ propagated = NoError

\* the feature was skipped as inactive, or its execution reported a failure
FailedOrInactive(feature) ==
  \/ ~feature.isActive
  \/ feature.id \in DOMAIN results /\ ~results[feature.id].success

\* C28: when regenerateFeatures has run over a context that already held
\* solids, a feature that failed or was inactive in this run has no solid
\* left under its id in context.previousSolids.
C28_NoStaleSolidLeft ==
  RegenReturned =>
    \A i \in 1..Len(features) :
      FailedOrInactive(features[i]) => features[i].id \notin DOMAIN previousSolids

(***************************************************************************)
(* The elements the solver tracks against the constraints it holds.        *)
(***************************************************************************)
\* getStatistics().elementCount: this.elements.size
elementCount == Len(elements)

\* the distinct elements referenced by the constraints currently held
ReferencedElements ==
  UNION {Range(constraints[k].elements) : k \in 1..Len(constraints)}

\* C29: after any sequence of addConstraint, removeConstraint and clear the
\* tracked elements are exactly the distinct elements referenced by the
\* constraints currently held, and elementCount is their number.
C29_TrackedAreReferenced ==
  /\ Range(elements) = ReferencedElements
  /\ elementCount = Cardinality(ReferencedElements)

(***************************************************************************)
(* The tool manager.  A Tool object is [id, kind, state, activeSketch,     *)
(* centerPoint, radius, selectedElements]: `kind' is its class (CircleTool *)
(* or EqualTool), `centerPoint' and `radius' say whether the CircleTool    *)
(* holds a center point and a positive radius, `selectedElements' are the  *)
(* elements the EqualTool has picked.  The manager keeps the registered    *)
(* tools by id and a reference to the active one.  onMouseUp,              *)
(* onMouseDoubleClick and onKeyUp are forwarded to handlers that do        *)
(* nothing in either class.                                                *)
(***************************************************************************)
MaxToolObjects == 3   \* Tool objects created: the defaults and those registered later

ToolKinds == {"circle", "equal"}

\* the elements of the active sketch a click can land on
SketchElements == {"LineA", "LineB", "CircleC"}

\* new CircleTool() / new EqualTool(): the Tool constructor leaves it Inactive
NewTool(kind) ==
  [id |-> kind, kind |-> kind, state |-> "inactive", activeSketch |-> FALSE,
   centerPoint |-> FALSE, radius |-> FALSE, selectedElements |-> {}]

\* the key that activates the tool: 'O' for the CircleTool, 'E' for the EqualTool
shortcut(t) == IF t.kind = "circle" THEN "o" ELSE "e"

\* Tool.setActiveSketch
setActiveSketch(t, sk) == [t EXCEPT !.activeSketch = sk]

\* Tool.activate
activate(t) ==
  IF t.state = "inactive" THEN [t EXCEPT !.state = "active"] ELSE t

\* ConstraintTool.onDeactivate empties the selection; CircleTool has none
onDeactivate(t) ==
  IF t.kind = "equal" THEN [t EXCEPT !.selectedElements = {}] ELSE t

\* Tool.deactivate
deactivate(t) ==
  IF t.state # "inactive"
  THEN [onDeactivate(t) EXCEPT !.state = "inactive"]
  ELSE t

\* CircleTool.onReset / ConstraintTool.onReset
onReset(t) ==
  IF t.kind = "circle"
  THEN [t EXCEPT !.centerPoint = FALSE, !.radius = FALSE]
  ELSE [t EXCEPT !.selectedElements = {}]

\* Tool.reset: onReset(), then state = Active whatever the state was
reset(t) == [onReset(t) EXCEPT !.state = "active"]

\* ConstraintTool.onCancel empties the selection; CircleTool has none
onCancel(t) ==
  IF t.kind = "equal" THEN [t EXCEPT !.selectedElements = {}] ELSE t

\* Tool.cancel: onCancel(), then reset()
cancel(t) == reset(onCancel(t))

\* ConstraintTool.canActivate needs the tool's own sketch; Tool.canActivate is true
canActivate(t) == IF t.kind = "equal" THEN t.activeSketch ELSE TRUE

\* both classes override requiresSketch to return true
requiresSketch(t) == TRUE

\* ConstraintTool.createConstraint for EqualTool (two elements required):
\* buildConstraint throws unless both are Lines, and the throw is caught
createConstraint(t) ==
  IF Cardinality(t.selectedElements) < 2 THEN t
  ELSE IF "CircleC" \in t.selectedElements THEN t
  ELSE IF t.activeSketch THEN reset(t)
  ELSE t

\* CircleTool.onMouseDown / ConstraintTool.onMouseDown; ev = [button, hit,
\* far]: hit is the element selectAt finds at the point or "none", far says
\* whether the point is away from the center point
toolMouseDown(t, ev) ==
  IF ev.button # 0 THEN t
  ELSE IF t.kind = "circle"
  THEN IF ~t.centerPoint
       THEN [t EXCEPT !.centerPoint = TRUE, !.state = "in-progress"]
       ELSE reset(t)
  ELSE IF ev.hit = "none" \/ ev.hit = "CircleC" THEN t
  ELSE createConstraint(
         IF ev.hit \notin t.selectedElements
         THEN [t EXCEPT !.selectedElements = @ \cup {ev.hit},
                        !.state = "in-progress"]
         ELSE t)

\* CircleTool.onMouseMove sets the radius once a center point is held;
\* ConstraintTool.onMouseMove only rewrites the feedback
toolMouseMove(t, ev) ==
  IF t.kind = "circle" /\ t.centerPoint THEN [t EXCEPT !.radius = ev.far] ELSE t

\* Tool.onKeyDown (Escape cancels), then the class's own keys
toolKeyDown(t, key) ==
  Let(IF key = "Escape" THEN cancel(t) ELSE t, LAMBDA u :
    IF u.kind = "circle"
    THEN IF key = "Enter" /\ u.centerPoint /\ u.radius THEN reset(u)
         ELSE IF key = "5" /\ u.centerPoint THEN [u EXCEPT !.radius = TRUE]
         ELSE u
    ELSE IF key = "Enter" THEN createConstraint(u) ELSE u)

\* what a manager call leaves behind: the Tool objects and the active tool
ManagerState(heap, active) == [toolHeap |-> heap, activeTool |-> active]

\* ToolManager.activateTool
activateTool(toolId) ==
  IF toolId \notin DOMAIN tools THEN ManagerState(toolHeap, activeTool)
  ELSE Let(tools[toolId], LAMBDA r :
    IF ~canActivate(toolHeap[r]) THEN ManagerState(toolHeap, activeTool)
    ELSE IF requiresSketch(toolHeap[r]) /\ ~activeSketch
    THEN ManagerState(toolHeap, activeTool)
    ELSE Let(IF activeTool # NoTool
             THEN [toolHeap EXCEPT ![activeTool] = deactivate(@)]
             ELSE toolHeap, LAMBDA h :
           ManagerState([h EXCEPT ![r] = activate(@)], r)))

\* the registered tools whose shortcut is the key, by id
ShortcutTools(key) ==
  {id \in DOMAIN tools : shortcut(toolHeap[tools[id]]) = key}

\* new ToolManager(): registerDefaultTools, no active tool, no active sketch
InitTools ==
  /\ toolHeap = (1 :> NewTool("circle")) @@ (2 :> NewTool("equal"))
  /\ tools = ("circle" :> 1) @@ ("equal" :> 2)
  /\ activeTool = NoTool
  /\ activeSketch = FALSE
  /\ ExtrudeIdle /\ RegenIdle /\ ValidateIdle /\ SolverIdle /\ EditIdle
  /\ BRepIdle /\ RevolveIdle

ToolsFrame ==
  UNCHANGED <<extrudeVars, regenVars, validateVars, solverVars, editVars,
              brepVars, revolveVars>>

\* ToolManager.registerTool of a new Tool object, with setupTool
RegisterTool ==
  /\ Cardinality(DOMAIN toolHeap) < MaxToolObjects
  /\ \E kind \in ToolKinds :
       \E r \in {Cardinality(DOMAIN toolHeap) + 1} :
         /\ toolHeap' = MapSet(toolHeap, r,
                               IF activeSketch
                               THEN setActiveSketch(NewTool(kind), TRUE)
                               ELSE NewTool(kind))
         /\ tools' = MapSet(tools, kind, r)
  /\ UNCHANGED <<activeTool, activeSketch>>
  /\ ToolsFrame

\* ToolManager.activateTool
ActivateTool ==
  /\ \E toolId \in ToolKinds \cup {"line"} :
       \E o \in {activateTool(toolId)} :
         /\ toolHeap' = o.toolHeap
         /\ activeTool' = o.activeTool
  /\ UNCHANGED <<tools, activeSketch>>
  /\ ToolsFrame

\* ToolManager.deactivateCurrentTool
DeactivateCurrentTool ==
  /\ IF activeTool # NoTool
     THEN /\ toolHeap' = [toolHeap EXCEPT ![activeTool] = deactivate(@)]
          /\ activeTool' = NoTool
     ELSE UNCHANGED <<toolHeap, activeTool>>
  /\ UNCHANGED <<tools, activeSketch>>
  /\ ToolsFrame

\* ToolManager.resetAllTools: reset() on every registered tool
ResetAllTools ==
  /\ toolHeap' = [r \in DOMAIN toolHeap |->
                    IF \E id \in DOMAIN tools : tools[id] = r
                    THEN reset(toolHeap[r]) ELSE toolHeap[r]]
  /\ UNCHANGED <<tools, activeTool, activeSketch>>
  /\ ToolsFrame

\* ToolManager.setActiveSketch: the manager's sketch and every registered tool's
SetActiveSketch ==
  /\ \E sk \in BOOLEAN :
       /\ activeSketch' = sk
       /\ toolHeap' = [r \in DOMAIN toolHeap |->
                         IF \E id \in DOMAIN tools : tools[id] = r
                         THEN setActiveSketch(toolHeap[r], sk) ELSE toolHeap[r]]
  /\ UNCHANGED <<tools, activeTool>>
  /\ ToolsFrame

\* ToolManager.onMouseDown: forwarded to the active tool
OnMouseDown ==
  /\ activeTool # NoTool
  /\ \E ev \in [button : {0, 2}, hit : SketchElements \cup {"none"}, far : {TRUE}] :
       toolHeap' = [toolHeap EXCEPT ![activeTool] = toolMouseDown(@, ev)]
  /\ UNCHANGED <<tools, activeTool, activeSketch>>
  /\ ToolsFrame

\* ToolManager.onMouseMove: forwarded to the active tool
OnMouseMove ==
  /\ activeTool # NoTool
  /\ \E ev \in [button : {0}, hit : {"none"}, far : BOOLEAN] :
       toolHeap' = [toolHeap EXCEPT ![activeTool] = toolMouseMove(@, ev)]
  /\ UNCHANGED <<tools, activeTool, activeSketch>>
  /\ ToolsFrame

\* ToolManager.onKeyDown: a shortcut of a registered tool activates it and
\* ends the handler; any other key goes to the active tool
OnKeyDown ==
  /\ \E key \in {"o", "e", "Escape", "Enter", "5"}, modifier \in BOOLEAN :
       IF ~modifier /\ ShortcutTools(key) # {}
       THEN \E o \in {activateTool(CHOOSE id \in ShortcutTools(key) : TRUE)} :
              /\ toolHeap' = o.toolHeap
              /\ activeTool' = o.activeTool
       ELSE IF activeTool # NoTool
       THEN /\ toolHeap' = [toolHeap EXCEPT ![activeTool] = toolKeyDown(@, key)]
            /\ UNCHANGED activeTool
       ELSE UNCHANGED <<toolHeap, activeTool>>
  /\ UNCHANGED <<tools, activeSketch>>
  /\ ToolsFrame

NextTools ==
  \/ RegisterTool
  \/ ActivateTool
  \/ DeactivateCurrentTool
  \/ ResetAllTools
  \/ SetActiveSketch
  \/ OnMouseDown
  \/ OnMouseMove
  \/ OnKeyDown

SpecTools == InitTools /\ [][NextTools]_vars

\* the registered Tool objects
RegisteredTools == {tools[id] : id \in DOMAIN tools}

\* C30: after any sequence of ToolManager operations at most one registered
\* tool is in a state other than Inactive, and that tool is the one
\* getActiveTool() returns.
C30_OnlyActiveToolNotInactive ==
  \A r \in RegisteredTools :
    toolHeap[r].state # "inactive" => activeTool = r

====
